---------------------------- MODULE Spec2Model ----------------------------
(***************************************************************************)
(* A model of the request-routing and resilience core of the Go load       *)
(* balancer: the per-backend circuit breaker (loadbalancer/circuitbreaker), *)
(* the server pool with its selection paths and sticky sessions            *)
(* (serverpool.go), the sticky-session store (loadbalancer/redis), the      *)
(* traffic-policy engine (loadbalancer/trafficpolicies.go) and the         *)
(* dispatcher lbHandler (main.go).                                         *)
(*                                                                         *)
(* Time is discrete; one tick stands for 10 seconds of wall-clock time, so  *)
(* main's interval of 10 s is 1 tick and its timeout of 30 s is 3 ticks.    *)
(* The zero time.Time is 0 and the clock starts at 1.                      *)
(***************************************************************************)
EXTENDS Integers, Sequences, FiniteSets, TLC

(***************************************************************************)
(* Bounds of the model.                                                    *)
(***************************************************************************)
\* the clock stops at MaxNow
MaxNow == 6
\* Execute calls issued by the direct callers of the breaker (SpecCB)
MaxCalls == 8
\* concurrent direct callers of the breaker (SpecCB)
NumCallers == 2
\* concurrent lbHandler invocations (Spec)
NumHandlers == 2
\* lbHandler invocations started (Spec)
MaxRequests == 2
\* GetBackendForStickySession calls started (SpecSticky)
MaxResolves == 3
\* the levels of latencyEWMA / successEWMA a backend's score is computed from
MaxLatency == 2
\* policies added to an engine
MaxPolicies == 2
\* the rate limiter: capacity (tokens), refill rate (tokens per second), the
\* resolution of its clock, how long it runs, and the Allow calls beyond the
\* 4 * capacity that use up warmup and tokens
RLCapacity == 1
RefillRate == 1
TicksPerSecond == 2
MaxClock == 4
MaxExtraCalls == 3
\* direct calls of GetNextPeerWeighted
MaxPicks == 8
\* calls of AddBackend on one pool
MaxAdds == 5
\* direct calls of SelectBackend, and requests to /health
MaxSelects == 1
\* calls of UpdateBackendsFromConsul after main()'s AddBackend loop, and
\* changes made to Backend objects (health checks, failed calls, requests
\* started)
MaxRebuilds == 1
MaxHeapEvents == 2
\* the autoscaler: the threshold of AutoScalerLoop, CooldownPeriod in ticks
\* of one minute, the ShouldScale calls and checkAndScale runs made
ScaleThreshold == 20
ScaleCooldown == 2
MaxScaleCalls == 3
NumReaders == 2
FaultsUntil == 3

Callers == 1..NumCallers

(***************************************************************************)
(* The backends of main(): backendConfigs, with their weights and regions.  *)
(* A backend is named by its URL.                                          *)
(***************************************************************************)
BackendConfigs ==
    << [url |-> "http://localhost:8081", weight |-> 3, region |-> "us-east"],
       [url |-> "http://localhost:8082", weight |-> 2, region |-> "us-west"],
       [url |-> "http://localhost:8083", weight |-> 1, region |-> "asia"] >>

Backends == {BackendConfigs[i].url : i \in 1..Len(BackendConfigs)}

ConfigOf(b) == BackendConfigs[CHOOSE i \in 1..Len(BackendConfigs) : BackendConfigs[i].url = b]
Weight(b) == ConfigOf(b).weight
Region(b) == ConfigOf(b).region

\* the region tags requests and backends carry; "" is no region
Regions == {"us-east", "us-west", "asia"}

\* the backend the direct callers of SpecCB call Execute on
Target == "http://localhost:8081"

\* a nil *Backend
NoBackend == "nil"

(***************************************************************************)
(* ServerPool structure (serverpool.go): the backend slice, the weighted   *)
(* index and the region index.                                             *)
(***************************************************************************)
RECURSIVE Repeat(_, _)
Repeat(x, n) == IF n <= 0 THEN <<>> ELSE <<x>> \o Repeat(x, n - 1)

EmptyPool ==
    [backends |-> <<>>, weighted |-> <<>>, regions |-> [r \in Regions |-> <<>>]]

AddBackend(p, b) ==
    [backends |-> Append(p.backends, b),
     weighted |-> p.weighted \o Repeat(b, Weight(b)),
     regions  |-> IF Region(b) # ""
                  THEN [p.regions EXCEPT ![Region(b)] = Append(@, b)]
                  ELSE p.regions]

RECURSIVE AddAll(_, _)
AddAll(p, cfgs) ==
    IF cfgs = <<>> THEN p ELSE AddAll(AddBackend(p, Head(cfgs).url), Tail(cfgs))

\* the pool after main()'s AddBackend loop
MainPool == AddAll(EmptyPool, BackendConfigs)

\* createBackendMap: the URLs the policy engine can resolve to a backend
BackendMap == {MainPool.backends[i] : i \in 1..Len(MainPool.backends)}

(***************************************************************************)
(* Requests.  A request is the cookie LOAD-BALANCING_SESSION (NoCookie when *)
(* the request carries none), three headers, and the value of hashRequest. *)
(* The client address is one outside 10., 192.168. and 172., so that no    *)
(* region is derived from it.                                              *)
(***************************************************************************)
NoCookie == "<none>"
\* the session ids clients send back, and the id lbHandler mints
SessionIds == {"s1"}
Minted == "session_<nanos>"
Cookies == {NoCookie, ""} \cup SessionIds

ClientRegions == {"", "us-east", "US-WEST", "asia"}
ClientTypes == {"", "gold-premium"}
ApiVersions == {"", "v2"}
HashValues == {29, 130}

\* with a session id lbHandler reads neither X-API-Version nor the hash, so
\* one value of each stands for all
HTTPRequests ==
    {r \in [cookie : Cookies, clientRegion : ClientRegions, clientType : ClientTypes,
            apiVersion : ApiVersions, hash : HashValues] :
        r.cookie # "" => (r.apiVersion = "" /\ r.hash = 29)}

\* r.Header.Get(field)
HeaderGet(r, field) ==
    CASE field = "X-Client-Region" -> r.clientRegion
      [] field = "X-Client-Type" -> r.clientType
      [] field = "X-API-Version" -> r.apiVersion
      [] OTHER -> ""

\* strings.ToLower(strings.TrimSpace(s)) on the header values above
ToLowerTrim(s) == IF s = "US-WEST" THEN "us-west" ELSE s

\* strings.Contains on the strings above: the pairs <<s, sub>> with sub a
\* proper, non-empty substring of s
ProperSubstrings == {<<"gold-premium", "premium">>, <<"gold-premium", "gold">>}
Contains(s, sub) == sub = "" \/ s = sub \/ <<s, sub>> \in ProperSubstrings

\* getClientRegion (main.go)
getClientRegion(r) ==
    LET region == ToLowerTrim(HeaderGet(r, "X-Client-Region"))
    IN IF region # "" THEN region ELSE "default"

(***************************************************************************)
(* Traffic policy engine (loadbalancer/trafficpolicies.go).                *)
(***************************************************************************)
PolicyTypeHeader == "header"
PolicyTypeGeo == "geo"
PolicyTypeCanary == "canary"
PolicyTypeDefault == "default"

\* the policies main() installs when TRAFFIC_POLICIES_ENABLED=true
GeoPolicy ==
    [Name |-> "Geo-Based Routing", Type |-> PolicyTypeGeo, Enabled |-> TRUE,
     Priority |-> 100, PercentageTraffic |-> 0,
     Rules |-> << [Field |-> "region", Operator |-> "equals", Value |-> "us-east",
                   Action |-> "allow", Backend |-> ""],
                  [Field |-> "region", Operator |-> "equals", Value |-> "asia",
                   Action |-> "redirect", Backend |-> "http://localhost:8083"] >>]

HeaderPolicy ==
    [Name |-> "Header-Based API Routing", Type |-> PolicyTypeHeader, Enabled |-> TRUE,
     Priority |-> 90, PercentageTraffic |-> 0,
     Rules |-> << [Field |-> "X-API-Version", Operator |-> "equals", Value |-> "v2",
                   Action |-> "allow", Backend |-> ""],
                  [Field |-> "X-Client-Type", Operator |-> "contains", Value |-> "premium",
                   Action |-> "redirect", Backend |-> "http://localhost:8081"] >>]

CanaryPolicy ==
    [Name |-> "Canary Deployment", Type |-> PolicyTypeCanary, Enabled |-> TRUE,
     Priority |-> 80, PercentageTraffic |-> 30,
     Rules |-> << [Field |-> "path", Operator |-> "prefix", Value |-> "/api/v2",
                   Action |-> "allow", Backend |-> ""] >>]

MainPolicies == <<GeoPolicy, HeaderPolicy, CanaryPolicy>>

\* a policy with a rule of action "deny" (PolicyRule.Action: allow, deny,
\* redirect), as AddPolicy accepts it
DenyPolicy ==
    [Name |-> "Deny API v2", Type |-> PolicyTypeHeader, Enabled |-> TRUE,
     Priority |-> 95, PercentageTraffic |-> 0,
     Rules |-> << [Field |-> "X-API-Version", Operator |-> "equals", Value |-> "v2",
                   Action |-> "deny", Backend |-> ""] >>]

Swap(s, i, j) == [s EXCEPT ![i] = s[j], ![j] = s[i]]

\* AddPolicy's inner and outer loops: an exchange sort, ascending in Priority
RECURSIVE SortInner(_, _, _)
SortInner(s, i, j) ==
    IF j > Len(s) THEN s
    ELSE SortInner(IF s[i].Priority > s[j].Priority THEN Swap(s, i, j) ELSE s, i, j + 1)

RECURSIVE SortOuter(_, _)
SortOuter(s, i) == IF i >= Len(s) THEN s ELSE SortOuter(SortInner(s, i, i + 1), i + 1)

AddPolicy(policies, policy) == SortOuter(Append(policies, policy), 1)

\* EnableTrafficPolicies: AddPolicy for each policy, in the order given
RECURSIVE AddPolicies(_, _)
AddPolicies(policies, rest) ==
    IF rest = <<>> THEN policies
    ELSE AddPolicies(AddPolicy(policies, Head(rest)), Tail(rest))

EnginePolicies == AddPolicies(<<>>, MainPolicies)

NoMatch == [match |-> FALSE, action |-> "deny", backend |-> ""]

RuleMatches(rule, value) ==
    CASE rule.Operator = "equals" -> value = rule.Value
      [] rule.Operator = "contains" -> Contains(value, rule.Value)
      [] OTHER -> FALSE

RECURSIVE evaluateHeaderPolicy(_, _)
evaluateHeaderPolicy(r, rules) ==
    IF rules = <<>> THEN NoMatch
    ELSE IF RuleMatches(Head(rules), HeaderGet(r, Head(rules).Field))
         THEN [match |-> TRUE, action |-> Head(rules).Action, backend |-> Head(rules).Backend]
         ELSE evaluateHeaderPolicy(r, Tail(rules))

\* the region is the X-Client-Region header as sent (no other source gives
\* one for these requests)
RECURSIVE evaluateGeoPolicy(_, _)
evaluateGeoPolicy(r, rules) ==
    IF rules = <<>> THEN NoMatch
    ELSE IF Head(rules).Field = "region"
            /\ RuleMatches(Head(rules), HeaderGet(r, "X-Client-Region"))
         THEN [match |-> TRUE, action |-> Head(rules).Action, backend |-> Head(rules).Backend]
         ELSE evaluateGeoPolicy(r, Tail(rules))

evaluateCanaryPolicy(r, policy) ==
    IF policy.PercentageTraffic > 0 /\ (r.hash % 100) < policy.PercentageTraffic
    THEN [match |-> TRUE, action |-> "allow", backend |-> ""]
    ELSE NoMatch

evaluatePolicy(r, policy) ==
    CASE policy.Type = PolicyTypeHeader -> evaluateHeaderPolicy(r, policy.Rules)
      [] policy.Type = PolicyTypeGeo -> evaluateGeoPolicy(r, policy.Rules)
      [] policy.Type = PolicyTypeCanary -> evaluateCanaryPolicy(r, policy)
      [] policy.Type = PolicyTypeDefault -> [match |-> TRUE, action |-> "allow", backend |-> ""]
      [] OTHER -> NoMatch

RECURSIVE selectBackendByPolicy(_)
selectBackendByPolicy(rules) ==
    IF rules = <<>> THEN NoBackend
    ELSE IF Head(rules).Backend # "" /\ Head(rules).Backend \in BackendMap
         THEN Head(rules).Backend
         ELSE selectBackendByPolicy(Tail(rules))

\* EvaluateRequest: the backend (or nil) and whether an error is returned
RECURSIVE EvaluateRequest(_, _)
EvaluateRequest(r, policies) ==
    IF policies = <<>> THEN [backend |-> NoBackend, err |-> FALSE]
    ELSE LET policy == Head(policies)
             m == evaluatePolicy(r, policy)
         IN IF ~policy.Enabled \/ ~m.match THEN EvaluateRequest(r, Tail(policies))
            ELSE IF m.action = "deny" THEN [backend |-> NoBackend, err |-> TRUE]
            ELSE IF m.action = "redirect" /\ m.backend # "" /\ m.backend \in BackendMap
                 THEN [backend |-> m.backend, err |-> FALSE]
            ELSE IF m.action = "allow"
                 THEN [backend |-> selectBackendByPolicy(policy.Rules), err |-> FALSE]
            ELSE EvaluateRequest(r, Tail(policies))

(***************************************************************************)
(* Circuit breaker (loadbalancer/circuitbreaker.go).  A breaker is a       *)
(* record; every method is an operator from the breaker (and the time of   *)
(* the call, time.Now()) to the breaker it leaves behind.                  *)
(***************************************************************************)
StateClosed == "Closed"
StateOpen == "Open"
StateHalfOpen == "HalfOpen"

ErrTooManyRequests == "ErrTooManyRequests"
NoError == "nil"

ZeroCounts ==
    [Requests |-> 0, TotalSuccesses |-> 0, TotalFailures |-> 0,
     ConsecutiveSuccesses |-> 0, ConsecutiveFailures |-> 0]

\* the calls of onStateChange so far: how many, and the arguments (from, to)
\* of the last one
NotNotified == [n |-> 0, from |-> "", to |-> ""]

\* NewCircuitBreaker with its options applied.  readyToTrip is always of the
\* form ConsecutiveFailures >= tripAt in this program (the default, "> 5",
\* is tripAt = 6).
NewCircuitBreaker(cfg) ==
    [state |-> StateClosed, generation |-> 0, counts |-> ZeroCounts,
     expiry |-> 0,
     maxRequests |-> cfg.maxRequests, interval |-> cfg.interval,
     timeout |-> cfg.timeout, tripAt |-> cfg.tripAt,
     notified |-> NotNotified]

\* the options main() passes for every backend
MainConfig == [maxRequests |-> 3, interval |-> 1, timeout |-> 3, tripAt |-> 5]
\* NewCircuitBreaker's defaults (60 s, 60 s, readyToTrip "> 5")
DefaultConfig == [maxRequests |-> 1, interval |-> 6, timeout |-> 6, tripAt |-> 6]
\* a breaker built with small option values
SmallConfig == [maxRequests |-> 1, interval |-> 1, timeout |-> 1, tripAt |-> 2]

CBConfigs == {MainConfig, DefaultConfig, SmallConfig}

ReadyToTripStrict(c) == c.counts.ConsecutiveFailures > c.tripAt

ReadyToTrip(c) == c.counts.ConsecutiveFailures >= c.tripAt

\* Counts.Successes: Requests - ConsecutiveFailures (uint32; Requests >=
\* ConsecutiveFailures within a generation, so the subtraction never wraps)
Successes(counts) == counts.Requests - counts.ConsecutiveFailures

ToNewGeneration(c, t) ==
    [c EXCEPT !.generation = @ + 1,
              !.counts = ZeroCounts,
              !.expiry = CASE c.state = StateClosed ->
                                  IF c.interval = 0 THEN 0 ELSE t + c.interval
                           [] c.state = StateOpen -> t + c.timeout
                           [] OTHER -> 0]

\* cb.onStateChange(cb.name, prev, state)
OnStateChange(c, prev, s) ==
    [c EXCEPT !.notified = [n |-> @.n + 1, from |-> prev, to |-> s]]

SetState(c, s, t) ==
    IF c.state = s THEN c
    ELSE OnStateChange(ToNewGeneration([c EXCEPT !.state = s], t), c.state, s)

\* currentState: the breaker after the lazy timer transitions; the state and
\* generation it returns are the fields of the result.
CurrentState(c, t) ==
    CASE c.state = StateClosed /\ c.expiry # 0 /\ c.expiry < t ->
             ToNewGeneration(c, t)
      [] c.state = StateOpen /\ c.expiry < t -> SetState(c, StateHalfOpen, t)
      [] OTHER -> c

\* an onSuccess that leaves ConsecutiveFailures as it was
OnSuccessKeepFailures(c, t) ==
    LET c1 == [c EXCEPT !.counts.TotalSuccesses = @ + 1,
                        !.counts.ConsecutiveSuccesses = @ + 1]
    IN IF c1.state = StateHalfOpen /\ Successes(c1.counts) >= c1.maxRequests
       THEN SetState(c1, StateClosed, t)
       ELSE c1

\* an onSuccess whose switch has no case StateHalfOpen
OnSuccessStaysHalfOpen(c, t) ==
    [c EXCEPT !.counts.TotalSuccesses = @ + 1,
              !.counts.ConsecutiveSuccesses = @ + 1,
              !.counts.ConsecutiveFailures = 0]

\* onSuccess(state, now), called with the state currentState returned
OnSuccess(c, t) ==
    LET c1 == [c EXCEPT !.counts.TotalSuccesses = @ + 1,
                        !.counts.ConsecutiveSuccesses = @ + 1,
                        !.counts.ConsecutiveFailures = 0]
    IN IF c1.state = StateHalfOpen /\ Successes(c1.counts) >= c1.maxRequests
       THEN SetState(c1, StateClosed, t)
       ELSE c1

\* an onFailure whose switch has no case StateHalfOpen
OnFailureClosedOnly(c, t) ==
    LET c1 == [c EXCEPT !.counts.TotalFailures = @ + 1,
                        !.counts.ConsecutiveFailures = @ + 1,
                        !.counts.ConsecutiveSuccesses = 0]
    IN IF c1.state = StateClosed /\ ReadyToTrip(c1) THEN SetState(c1, StateOpen, t) ELSE c1

OnFailure(c, t) ==
    LET c1 == [c EXCEPT !.counts.TotalFailures = @ + 1,
                        !.counts.ConsecutiveFailures = @ + 1,
                        !.counts.ConsecutiveSuccesses = 0]
    IN CASE c1.state = StateClosed ->
                IF ReadyToTrip(c1) THEN SetState(c1, StateOpen, t) ELSE c1
         [] c1.state = StateHalfOpen -> SetState(c1, StateOpen, t)
         [] OTHER -> c1

\* a beforeRequest that lets calls through an Open breaker
BeforeRequestNoOpenCheck(c, t) ==
    LET c1 == CurrentState(c, t)
    IN [cb |-> [c1 EXCEPT !.counts.Requests = @ + 1],
        generation |-> c1.generation, err |-> NoError]

\* beforeRequest: the breaker afterwards, the generation and the error
\* a beforeRequest without the HalfOpen limit
BeforeRequestNoLimit(c, t) ==
    LET c1 == CurrentState(c, t)
    IN IF c1.state = StateOpen
       THEN [cb |-> c1, generation |-> c1.generation, err |-> ErrTooManyRequests]
       ELSE [cb |-> [c1 EXCEPT !.counts.Requests = @ + 1],
             generation |-> c1.generation, err |-> NoError]

BeforeRequest(c, t) ==
    LET c1 == CurrentState(c, t)
    IN IF \/ c1.state = StateOpen
          \/ c1.state = StateHalfOpen /\ c1.counts.Requests >= c1.maxRequests
       THEN [cb |-> c1, generation |-> c1.generation, err |-> ErrTooManyRequests]
       ELSE [cb |-> [c1 EXCEPT !.counts.Requests = @ + 1],
             generation |-> c1.generation, err |-> NoError]

\* an afterRequest without the generation check
AfterRequestAnyGeneration(c, before, success, t) ==
    LET c1 == CurrentState(c, t)
    IN IF success THEN OnSuccess(c1, t) ELSE OnFailure(c1, t)

\* an afterRequest that is not reached by a call that did not succeed
AfterRequestOnSuccessOnly(c, before, success, t) ==
    LET c1 == CurrentState(c, t)
    IN IF c1.generation # before \/ ~success THEN c1 ELSE OnSuccess(c1, t)

AfterRequest(c, before, success, t) ==
    LET c1 == CurrentState(c, t)
    IN IF c1.generation # before THEN c1
       ELSE IF success THEN OnSuccess(c1, t) ELSE OnFailure(c1, t)

(***************************************************************************)
(* State.                                                                  *)
(***************************************************************************)
VARIABLES
    now,        \* time.Now(), in ticks
    cb,         \* Backend.CircuitBreaker, per backend
    callPc,     \* direct caller of Execute: "idle" or "running" (inside req())
    callGen,    \* the generation its beforeRequest returned
    lastRet,    \* what the Execute that returned last returned: "none", "nil", "err", "panic", ErrTooManyRequests
    calls,      \* Execute calls issued so far by the direct callers
    streak,     \* failed Execute calls completed since the last successful one
    genStreak,  \* [gen, n]: n failed calls of generation gen completed in a row
    alive,      \* Backend.Alive, per backend
    active,     \* Backend.active, per backend
    current,    \* ServerPool.current, kept modulo len(weighted)
    stickySessions, \* ServerPool.stickySessions on SessionIds; NoBackend when absent
    redis,      \* MockRedisClient.data on the keys of SessionIds: the BackendURL stored, "" when absent
    policiesEnabled, \* trafficPolicyEngine != nil
    req,        \* per lbHandler invocation: its position and its locals
    started,    \* lbHandler invocations (Spec), resolve calls (SpecSticky) started so far
    resolved,   \* per session id: the selectable backend its last resolve returned, while it stays selectable
    replaced,   \* per session id: a resolve that found the mapped backend not alive has chosen a new one
    engine,     \* TrafficPolicyEngine.policies
    decision,   \* the last SelectBackendWithPolicy call: its request, what EvaluateRequest returned, the backend returned
    clock,      \* time.Now() as the rate limiter reads it, in ticks of 1/TicksPerSecond s
    buckets,    \* RateLimiter.buckets, per client key (present: the map holds the key)
    mw,         \* per Middleware invocation: position, client key, the time Allow read
    lastAnswer, \* what the Middleware invocation that returned last did: "none", "429", "next"
    requestCount, \* requestCount of main.go: invocations of the handler behind the middleware
    allowCalls, \* Allow calls started so far
    selection,  \* the SelectBackend that returned last: its number, region argument and result
    health,     \* the /health request answered last: its number and status code
    answer,     \* the GetBackendForStickySession of SpecStore that returned last: session id, region, the store operations that failed, result
    heap,       \* SpecConsul: the Backend objects (alive flag, breaker, active count), by <<URL, rebuild that made it>>
    cpool,      \* SpecConsul: s.backends, s.weighted, s.regions as slices of Backend objects
    update,     \* SpecConsul: UpdateBackendsFromConsul's position, the services left to add, the slice it replaced
    cache,      \* SpecConsul: s.stickySessions, session id to Backend object
    got,        \* SpecConsul: the selection that returned last: where from, the Backend object
    events,     \* SpecConsul: changes made to Backend objects so far
    scale,      \* SpecScale: the scaling state in the store, the ShouldScale calls made, the times of the scale-up decisions, the scale-down decisions
    reader,     \* SpecState: per caller of CircuitBreaker.State(): its position inside the read lock, the generation and the prev it read
    scaler,     \* SpecScale: per caller of ShouldScale: position, the state and time it read, its request count
    built,      \* the pool as the AddBackend calls so far have built it
    wcall,      \* per direct caller of GetNextPeerWeighted: position, start index, the number of its call
    picks,      \* what the GetNextPeerWeighted calls returned, in the order of their atomic.AddUint64 ("pending": not returned yet)
    admits      \* per client key: the times read by the calls Allow admitted from the tokens (warmup used up)

cbVars == <<callPc, callGen, lastRet, calls, streak, genStreak>>
lbVars == <<alive, active, current, stickySessions, redis, policiesEnabled,
            req, started, resolved, replaced>>
polVars == <<engine, decision>>
\* the variables of the components specified on their own
rlVars == <<clock, buckets, mw, lastAnswer, requestCount, allowCalls, admits>>
wVars == <<wcall, picks>>
poolVars == <<built>>
selVars == <<selection, health>>
storeVars == <<answer>>
\* the variables of the specifications that follow SpecSelect
consulVars == <<heap, cpool, update, cache, got, events>>
scaleVars == <<scale, scaler>>
stateVars == <<reader>>
extVars == <<storeVars, consulVars, scaleVars, stateVars>>
auxVars == <<polVars, rlVars, wVars, poolVars, selVars, extVars>>
vars == <<now, cb, cbVars, lbVars, auxVars>>

(***************************************************************************)
(* Time passes.                                                            *)
(***************************************************************************)
Tick ==
    /\ now < MaxNow
    /\ now' = now + 1
    /\ UNCHANGED <<cb, cbVars, lbVars, auxVars>>

(***************************************************************************)
(* Execute, called directly on one breaker by concurrent callers.          *)
(* ExecuteAdmit is beforeRequest; ExecuteReturn is the end of req() with    *)
(* its outcome and the afterRequest that follows (for a panic, the one in  *)
(* the deferred recover).                                                  *)
(***************************************************************************)
ReqOutcomes == {"nil", "err", "panic"}

ExecuteAdmit(c) ==
    /\ callPc[c] = "idle"
    /\ calls < MaxCalls
    /\ calls' = calls + 1
    /\ LET r == BeforeRequest(cb[Target], now)
       IN /\ cb' = [cb EXCEPT ![Target] = r.cb]
          /\ IF r.err = NoError
             THEN /\ callPc' = [callPc EXCEPT ![c] = "running"]
                  /\ callGen' = [callGen EXCEPT ![c] = r.generation]
                  /\ lastRet' = lastRet
             ELSE /\ callPc' = callPc
                  /\ callGen' = callGen
                  /\ lastRet' = r.err
    /\ UNCHANGED <<now, streak, genStreak, lbVars, auxVars>>

ExecuteReturn(c, outcome) ==
    /\ callPc[c] = "running"
    /\ cb' = [cb EXCEPT ![Target] =
                 AfterRequest(cb[Target], callGen[c], outcome = "nil", now)]
    /\ callPc' = [callPc EXCEPT ![c] = "idle"]
    /\ callGen' = [callGen EXCEPT ![c] = 0]
    /\ lastRet' = outcome
    /\ streak' = IF outcome = "nil" THEN 0 ELSE streak + 1
    /\ genStreak' =
          CASE callGen[c] < genStreak.gen -> genStreak
            [] callGen[c] = genStreak.gen ->
                  [genStreak EXCEPT !.n = IF outcome = "nil" THEN 0 ELSE @ + 1]
            [] OTHER -> [gen |-> callGen[c], n |-> IF outcome = "nil" THEN 0 ELSE 1]
    /\ UNCHANGED <<now, calls, lbVars, auxVars>>

\* CircuitBreaker.State(): currentState under the (read) lock
StateQuery ==
    /\ cb' = [cb EXCEPT ![Target] = CurrentState(cb[Target], now)]
    /\ cb' # cb
    /\ UNCHANGED <<now, cbVars, lbVars, auxVars>>

(***************************************************************************)
(* Rate limiter (loadbalancer/ratelimiter.go).  Tokens are counted in      *)
(* units of 1/TicksPerSecond token, so that the refill of one tick,        *)
(* RefillRate units, is a whole number; the float arithmetic of the code   *)
(* is taken as exact.                                                      *)
(***************************************************************************)
ClientKeys == {"10.1.1.1", "10.1.1.2"}
TokenUnit == TicksPerSecond
CapacityUnits == RLCapacity * TokenUnit

Min(a, b) == IF a < b THEN a ELSE b

\* the bucket Allow creates for a key it does not know
NewBucket(t) ==
    [present |-> TRUE, tokens |-> CapacityUnits, last |-> t, warmup |-> RLCapacity * 3]

\* the refill, without the cap at capacity
RefillUncapped(tokens, elapsed) == tokens + elapsed * RefillRate
\* bucket.tokens += elapsed * rl.refillRate, capped at rl.capacity
Refill(tokens, elapsed) == Min(CapacityUnits, tokens + elapsed * RefillRate)

\* Allow without the early return of the warmup
WarmupSkipped(bucket) == FALSE
\* if bucket.warmup > 0
InWarmup(bucket) == bucket.warmup > 0

\* The critical section of Allow(key) for a call that read the time t:
\* the bucket it leaves and what it returns
Allow(b, t) ==
    LET bucket == IF b.present THEN b ELSE NewBucket(t)
        elapsed == t - bucket.last
        refilled == IF elapsed > 0
                    THEN [bucket EXCEPT !.tokens = Refill(@, elapsed), !.last = t]
                    ELSE bucket
        allowed == refilled.tokens >= TokenUnit
    IN IF InWarmup(bucket)
       THEN [bucket |-> [bucket EXCEPT !.warmup = @ - 1, !.last = t], allowed |-> TRUE]
       ELSE [bucket |-> IF allowed THEN [refilled EXCEPT !.tokens = @ - TokenUnit]
                        ELSE refilled,
             allowed |-> allowed]

\* Middleware that runs the handler behind it whatever Allow returned
ServedAlways(count, allowed) == count + 1
\* Middleware: next.ServeHTTP only when Allow returned true; the handler
\* behind it is lbHandler, whose first statement counts the request
Served(count, allowed) == IF allowed THEN count + 1 ELSE count

(***************************************************************************)
(* Selection (serverpool.go).  The pool is the one main() builds; the      *)
(* operators take the fields they read and return the fields they write.   *)
(***************************************************************************)
Handlers == 1..NumHandlers

pool == MainPool

Range(seq) == {seq[i] : i \in 1..Len(seq)}

\* a scan that starts at index 0 whatever the cursor
WeightedScanFromZero(al, start, i) ==
    IF \E k \in 1..Len(pool.weighted) : al[pool.weighted[k]]
    THEN pool.weighted[CHOOSE k \in 1..Len(pool.weighted) :
                          /\ al[pool.weighted[k]]
                          /\ \A j \in 1..(k - 1) : ~al[pool.weighted[j]]]
    ELSE NoBackend

\* the loop of GetNextPeerWeighted from index start
RECURSIVE WeightedScan(_, _, _)
WeightedScan(al, start, i) ==
    IF i >= Len(pool.weighted) THEN NoBackend
    ELSE LET backend == pool.weighted[((start + i) % Len(pool.weighted)) + 1]
         IN IF al[backend] THEN backend ELSE WeightedScan(al, start, i + 1)

GetNextPeerWeighted(al, cur) ==
    IF Len(pool.weighted) = 0 THEN [peer |-> NoBackend, current |-> cur]
    ELSE [peer |-> WeightedScan(al, cur % Len(pool.weighted), 0),
          current |-> (cur + 1) % Len(pool.weighted)]

getHealthyByRegion(al, region) ==
    LET inRegion == IF region \in DOMAIN pool.regions
                    THEN SelectSeq(pool.regions[region], LAMBDA b : al[b])
                    ELSE <<>>
    IN IF region # "" /\ inRegion # <<>> THEN inRegion
       ELSE SelectSeq(pool.backends, LAMBDA b : al[b])

\* math.MaxFloat64, and a finite score num/den
MaxScore == [max |-> TRUE, num |-> 0, den |-> 1]
ScoreLess(x, y) == ~x.max /\ (y.max \/ x.num * y.den < y.num * x.den)

\* Backend.Score with the breaker as State() leaves it: latency * penalty *
\* load * circuitMultiplier / max(weight, 1), where lat[b] is the level of
\* latencyEWMA * (1 / successEWMA)
Score(b, cbs, act, lat) ==
    IF cbs[b].state = StateOpen THEN MaxScore
    ELSE [max |-> FALSE,
          num |-> lat[b] * (1 + act[b])
                     * (IF cbs[b].state = StateHalfOpen THEN 2 ELSE 1),
          den |-> IF Weight(b) > 1 THEN Weight(b) ELSE 1]

\* the loop of SelectBackend over the candidates
RECURSIVE BestOf(_, _, _, _, _, _)
BestOf(candidates, best, bestScore, cbs, act, lat) ==
    IF candidates = <<>> THEN best
    ELSE LET score == Score(Head(candidates), cbs, act, lat)
         IN IF ScoreLess(score, bestScore)
            THEN BestOf(Tail(candidates), Head(candidates), score, cbs, act, lat)
            ELSE BestOf(Tail(candidates), best, bestScore, cbs, act, lat)

\* SelectBackend: the backend, the cursor and the breakers afterwards (Score
\* calls State() on every candidate, which advances its breaker's timer
\* transitions)
SelectBackend(region, al, cur, cbs, act, lat) ==
    LET candidates == getHealthyByRegion(al, region)
        cbs1 == [b \in Backends |->
                    IF b \in Range(candidates) THEN CurrentState(cbs[b], now) ELSE cbs[b]]
        w == GetNextPeerWeighted(al, cur)
    IN IF region = "" \/ region = "default" \/ candidates = <<>>
       THEN [peer |-> w.peer, current |-> w.current, cb |-> cbs]
       ELSE [peer |-> BestOf(candidates, NoBackend, MaxScore, cbs1, act, lat),
             current |-> cur, cb |-> cbs1]

\* SelectBackendWithPolicy on an engine holding policies
SelectBackendWithEngine(r, enabled, policies, al, cur) ==
    LET e == EvaluateRequest(r, policies)
    IN IF ~enabled \/ e.err \/ e.backend = NoBackend
       THEN GetNextPeerWeighted(al, cur)
       ELSE [peer |-> e.backend, current |-> cur]

SelectBackendWithPolicy(r, enabled, al, cur) ==
    SelectBackendWithEngine(r, enabled, EnginePolicies, al, cur)

IncrementActive(act, b) == [act EXCEPT ![b] = @ + 1]

\* a deferred function that does not run
DecrementActiveSkipped(act, b) == act

DecrementActive(act, b) == [act EXCEPT ![b] = @ - 1]

\* the sticky maps hold the session ids clients send back; a minted id is
\* new, so a lookup of it finds nothing and no later request reads its entry
LocalGet(m, sid) == IF sid \in SessionIds THEN m[sid] ELSE NoBackend
LocalSet(m, sid, b) == IF sid \in SessionIds THEN [m EXCEPT ![sid] = b] ELSE m
RedisGet(m, sid) == IF sid \in SessionIds THEN m[sid] ELSE ""
RedisSet(m, sid, url) == IF sid \in SessionIds THEN [m EXCEPT ![sid] = url] ELSE m

\* alive and circuit breaker not Open, as State() reports it
Selectable(b, al, cbs) == al[b] /\ CurrentState(cbs[b], now).state # StateOpen

\* history: the backend a resolve of sid returned / backend b stopped being selectable
Returned(res, sid, b, al, cbs) ==
    IF sid \in SessionIds
    THEN [res EXCEPT ![sid] = IF Selectable(b, al, cbs) THEN b ELSE NoBackend]
    ELSE res
Forget(res, b) == [s \in SessionIds |-> IF res[s] = b THEN NoBackend ELSE res[s]]

(***************************************************************************)
(* GetBackendForStickySession (serverpool.go) run by one caller with no    *)
(* other resolve in between: the backend returned and the fields written.  *)
(***************************************************************************)
GetBackendForStickySession(sessionID, region, al, cur, cbs, act, local, store, lat) ==
    LET data == RedisGet(store, sessionID)
        \* GetSession: updateSession writes back what was read
        store1 == IF data = "" THEN store ELSE RedisSet(store, sessionID, data)
        backend == LocalGet(local, sessionID)
        a == SelectBackend(region, al, cur, cbs, act, lat)
        unchanged == [current |-> cur, cb |-> cbs, stickySessions |-> local]
    IN IF data # "" /\ data \in Range(pool.backends) /\ al[data]
       THEN unchanged @@ [peer |-> data, redis |-> store1]
       ELSE IF backend # NoBackend /\ al[backend]
       THEN unchanged @@ [peer |-> backend, redis |-> RedisSet(store1, sessionID, backend)]
       ELSE IF a.peer # NoBackend
       THEN [peer |-> a.peer, current |-> a.current, cb |-> a.cb,
             stickySessions |-> LocalSet(local, sessionID, a.peer),
             redis |-> RedisSet(store1, sessionID, a.peer)]
       ELSE [peer |-> NoBackend, current |-> a.current, cb |-> a.cb,
             stickySessions |-> local, redis |-> store1]

\* a GetBackendForStickySession that gives up when the store fails
StickyResolveGivesUp(sessionID, region, al, cur, cbs, act, local, store, lat, useRedis, fail) ==
    IF useRedis /\ fail # {}
    THEN [peer |-> NoBackend, current |-> cur, cb |-> cbs, stickySessions |-> local,
          redis |-> store]
    ELSE GetBackendForStickySession(sessionID, region, al, cur, cbs, act, local, store, lat)

\* GetBackendForStickySession with the store on or off (IsRedisEnabled) and
\* with store operations that return an error: "get" (GetSession),
\* "touch" (updateSession inside GetSession, whose error GetSession only
\* logs), "set" (SetSession)
StickyResolve(sessionID, region, al, cur, cbs, act, local, store, lat, useRedis, fail) ==
    LET data == IF useRedis /\ "get" \notin fail THEN RedisGet(store, sessionID) ELSE ""
        store1 == IF data # "" /\ "touch" \notin fail
                  THEN RedisSet(store, sessionID, data) ELSE store
        SetSession(url) == IF useRedis /\ "set" \notin fail
                           THEN RedisSet(store1, sessionID, url) ELSE store1
        backend == LocalGet(local, sessionID)
        a == SelectBackend(region, al, cur, cbs, act, lat)
        unchanged == [current |-> cur, cb |-> cbs, stickySessions |-> local]
    IN IF data # "" /\ data \in Range(pool.backends) /\ al[data]
       THEN unchanged @@ [peer |-> data, redis |-> store1]
       ELSE IF backend # NoBackend /\ al[backend]
       THEN unchanged @@ [peer |-> backend, redis |-> SetSession(backend)]
       ELSE IF a.peer # NoBackend
       THEN [peer |-> a.peer, current |-> a.current, cb |-> a.cb,
             stickySessions |-> LocalSet(local, sessionID, a.peer),
             redis |-> SetSession(a.peer)]
       ELSE [peer |-> NoBackend, current |-> a.current, cb |-> a.cb,
             stickySessions |-> local, redis |-> store1]

(***************************************************************************)
(* lbHandler (main.go), one action per step of an invocation h.  The       *)
(* positions: "idle"; "selected" (the selection of the if/else is made);   *)
(* "proxy" (inside the breaker-wrapped call); "rejected" and "done" (the   *)
(* call has returned, the deferred function has not run); "unavailable"    *)
(* (no backend was found).                                                 *)
(***************************************************************************)
Latencies == [Backends -> 1..MaxLatency]

\* the latency levels that can make a difference to SelectBackend(region):
\* scores are compared only between two or more candidates
LatenciesFor(region, al) ==
    IF region # "" /\ region # "default" /\ Len(getHealthyByRegion(al, region)) > 1
    THEN Latencies
    ELSE {[b \in Backends |-> 1]}

IdleReq ==
    [pc |-> "idle", sid |-> "", region |-> "", premium |-> FALSE,
     peer |-> NoBackend, generation |-> 0, sdata |-> "", outcome |-> "",
     consulted |-> <<>>]

\* the cookie is read or minted, the region computed and the if/else run:
\* with a session id GetBackendForStickySession; with an empty one the
\* policy engine and, on nil, SelectBackend
Begin(h, r, lat) ==
    /\ req[h].pc = "idle"
    /\ started < MaxRequests
    /\ started' = started + 1
    /\ LET sessionID == IF r.cookie = NoCookie THEN Minted ELSE r.cookie
           region == getClientRegion(r)
           mine == [IdleReq EXCEPT !.pc = "selected",
                       !.premium = Contains(HeaderGet(r, "X-Client-Type"), "premium")]
           g == GetBackendForStickySession(sessionID, region, alive, current, cb,
                                           active, stickySessions, redis, lat)
           p == SelectBackendWithPolicy(r, policiesEnabled, alive, current)
           a == SelectBackend(region, alive, p.current, cb, active, lat)
       IN IF sessionID # ""
          THEN /\ req' = [req EXCEPT ![h] = [mine EXCEPT !.peer = g.peer,
                                                !.consulted = <<"sticky">>]]
               /\ current' = g.current
               /\ cb' = g.cb
               /\ stickySessions' = g.stickySessions
               /\ redis' = g.redis
          ELSE IF p.peer # NoBackend
          THEN /\ req' = [req EXCEPT ![h] = [mine EXCEPT !.peer = p.peer,
                                                !.consulted = <<"policy">>]]
               /\ current' = p.current
               /\ UNCHANGED <<cb, stickySessions, redis>>
          ELSE /\ req' = [req EXCEPT ![h] = [mine EXCEPT !.peer = a.peer,
                                                !.consulted = <<"policy", "adaptive">>]]
               /\ current' = a.current
               /\ cb' = a.cb
               /\ UNCHANGED <<stickySessions, redis>>
    /\ UNCHANGED <<now, cbVars, auxVars, alive, active, policiesEnabled, resolved, replaced>>

\* the weighted fallback on nil; with a backend: State() for the log line,
\* IncrementActive, and Execute's beforeRequest
Dispatch(h) ==
    /\ req[h].pc = "selected"
    /\ LET w == IF req[h].peer = NoBackend
                THEN GetNextPeerWeighted(alive, current)
                ELSE [peer |-> req[h].peer, current |-> current]
           consulted == IF req[h].peer = NoBackend
                        THEN Append(req[h].consulted, "weighted")
                        ELSE req[h].consulted
       IN /\ current' = w.current
          /\ IF w.peer = NoBackend
             THEN /\ req' = [req EXCEPT ![h].pc = "unavailable",
                                        ![h].consulted = consulted]
                  /\ UNCHANGED <<cb, active>>
             ELSE LET r == BeforeRequest(CurrentState(cb[w.peer], now), now)
                  IN /\ active' = IncrementActive(active, w.peer)
                     /\ cb' = [cb EXCEPT ![w.peer] = r.cb]
                     /\ req' = [req EXCEPT ![h] =
                                  [IdleReq EXCEPT
                                     !.peer = w.peer,
                                     !.generation = r.generation,
                                     !.pc = IF r.err = NoError THEN "proxy" ELSE "rejected"]]
    /\ UNCHANGED <<now, cbVars, auxVars, alive, stickySessions, redis, policiesEnabled,
                   started, resolved, replaced>>

\* what ReverseProxy.ServeHTTP does inside the breaker-wrapped call: it
\* writes a response below 500, writes one of 500 and above (502 from its
\* error handler on a transport error), or panics (http.ErrAbortHandler)
ProxyOutcomes == {"2xx", "5xx", "panic"}

\* req() ends and afterRequest runs: the closure returns nil, nil whatever
\* the response; on a panic Execute's deferred recover calls
\* afterRequest(generation, false) and panics again
ProxyReturn(h, outcome) ==
    /\ req[h].pc = "proxy"
    /\ cb' = [cb EXCEPT ![req[h].peer] =
                 AfterRequest(cb[req[h].peer], req[h].generation, outcome # "panic", now)]
    /\ req' = [req EXCEPT ![h].pc = "done", ![h].outcome = outcome]
    /\ UNCHANGED <<now, cbVars, auxVars, alive, active, current, stickySessions, redis,
                   policiesEnabled, started, resolved, replaced>>

\* lbHandler returns (or unwinds): the deferred DecrementActive
Finish(h) ==
    /\ req[h].pc \in {"done", "rejected"}
    /\ active' = DecrementActive(active, req[h].peer)
    /\ req' = [req EXCEPT ![h] = IdleReq]
    /\ UNCHANGED <<now, cb, cbVars, auxVars, alive, current, stickySessions, redis,
                   policiesEnabled, started, resolved, replaced>>

\* the status label of requestsTotal for the invocation r that is about to
\* return: recorder.status, which starts as http.StatusOK and is set by the
\* WriteHeader of the proxied response only (502: the proxy's error handler)
RecordedStatus(r) ==
    IF r.pc = "done" /\ r.outcome = "5xx" THEN 502 ELSE 200

\* the status the client is sent: the proxied response, or the 503 of
\* http.Error when Execute returned an error
SentStatus(r) ==
    CASE r.pc = "rejected" -> 503
      [] r.outcome = "5xx" -> 502
      [] OTHER -> 200

\* 503 "Service unavailable": no backend was found
Unavailable(h) ==
    /\ req[h].pc = "unavailable"
    /\ req' = [req EXCEPT ![h] = IdleReq]
    /\ UNCHANGED <<now, cb, cbVars, auxVars, alive, active, current, stickySessions, redis,
                   policiesEnabled, started, resolved, replaced>>

\* HealthCheck: the dial of backend b fails or succeeds
HealthCheck(b, up) ==
    /\ alive[b] # up
    /\ alive' = [alive EXCEPT ![b] = up]
    /\ resolved' = IF up THEN resolved ELSE Forget(resolved, b)
    /\ UNCHANGED <<now, cb, cbVars, auxVars, active, current, stickySessions, redis,
                   policiesEnabled, req, started, replaced>>

\* the policy engine as EnableTrafficPolicies leaves it, not called yet
NoDecision ==
    [called |-> FALSE,
     r |-> [cookie |-> "", clientRegion |-> "", clientType |-> "", apiVersion |-> "",
            hash |-> 29],
     backend |-> NoBackend, err |-> FALSE, peer |-> NoBackend]

InitPolicy ==
    /\ engine = EnginePolicies
    /\ decision = NoDecision

\* NewRateLimiter: no bucket yet
NoBucket == [present |-> FALSE, tokens |-> 0, last |-> 0, warmup |-> 0]
IdleMw == [pc |-> "idle", key |-> "", stamp |-> 0]

InitRL ==
    /\ clock = 0
    /\ buckets = [k \in ClientKeys |-> NoBucket]
    /\ mw = [h \in Handlers |-> IdleMw]
    /\ lastAnswer = "none"
    /\ requestCount = 0
    /\ allowCalls = 0
    /\ admits = [k \in ClientKeys |-> <<>>]

IdleCall == [pc |-> "idle", start |-> 0, ticket |-> 0]

InitWeighted ==
    /\ wcall = [h \in Handlers |-> IdleCall]
    /\ picks = <<>>

\* the pool once main() has added its backends
InitBuilt == built = MainPool

InitSelect ==
    /\ selection = [n |-> 0, region |-> "", peer |-> NoBackend]
    /\ health = [n |-> 0, status |-> 0]

NoAnswer == [n |-> 0, sid |-> "", region |-> "", fail |-> {}, peer |-> NoBackend]

\* a Backend as UpdateBackendsFromConsul builds it
FreshBackend == [alive |-> TRUE, cb |-> NewCircuitBreaker(MainConfig), active |-> 0]

\* the Backend objects: the URL and the number of the rebuild that made the
\* object (0: main()'s AddBackend loop)
Objects == Backends \X (0..MaxRebuilds)

\* AddBackend / the loop body of UpdateBackendsFromConsul, on objects
AddObject(p, o) ==
    [backends |-> Append(p.backends, o),
     weighted |-> p.weighted \o Repeat(o, Weight(o[1])),
     regions  |-> [p.regions EXCEPT ![Region(o[1])] = Append(@, o)]]

RECURSIVE AddObjects(_, _, _)
AddObjects(p, urls, k) ==
    IF urls = <<>> THEN p ELSE AddObjects(AddObject(p, <<Head(urls), k>>), Tail(urls), k)

NoUpdate == [pc |-> "idle", services |-> <<>>, before |-> <<>>, count |-> 0]
NoSelection == [n |-> 0, kind |-> "", obj |-> NoBackend]

InitConsul ==
    /\ heap = [o \in Objects |-> FreshBackend]
    /\ cpool = AddObjects(EmptyPool, MainPool.backends, 0)
    /\ update = NoUpdate
    /\ cache = [s \in SessionIds |-> NoBackend]
    /\ got = NoSelection
    /\ events = 0

\* GetAutoScalingState's default when the store holds no state (time 0 is
\* the zero time.Time)
DefaultScalingState == [CurrentReplicas |-> 3, LastScaleUp |-> 0, LastScaleDown |-> 0]

IdleScaler == [pc |-> "idle", state |-> DefaultScalingState, t |-> 0, count |-> 0]

InitScale ==
    /\ scale = [state |-> DefaultScalingState, calls |-> 0, ups |-> <<>>, downs |-> 0]
    /\ scaler = [h \in Handlers |-> IdleScaler]

\* the components specified after SpecSelect, before their first call
Readers == 1..NumReaders
IdleReader == [pc |-> "idle", generation |-> 0, prev |-> ""]

InitExt ==
    /\ answer = NoAnswer
    /\ InitConsul
    /\ InitScale
    /\ reader = [r \in Readers |-> IdleReader]

InitAux == InitPolicy /\ InitRL /\ InitWeighted /\ InitBuilt /\ InitSelect /\ InitExt

\* no direct caller of Execute has called yet
InitCallers ==
    /\ callPc = [c \in Callers |-> "idle"]
    /\ callGen = [c \in Callers |-> 0]
    /\ lastRet = "none"
    /\ calls = 0
    /\ streak = 0
    /\ genStreak = [gen |-> 0, n |-> 0]

\* the pool and the handlers when main() starts serving
InitPool ==
    /\ alive = [b \in Backends |-> TRUE]
    /\ active = [b \in Backends |-> 0]
    /\ current = 0
    /\ stickySessions = [s \in SessionIds |-> NoBackend]
    /\ redis = [s \in SessionIds |-> ""]
    /\ req = [h \in Handlers |-> IdleReq]
    /\ started = 0
    /\ resolved = [s \in SessionIds |-> NoBackend]
    /\ replaced = [s \in SessionIds |-> FALSE]

InitCB ==
    /\ now = 1
    /\ \E cfg \in CBConfigs : cb = [b \in Backends |-> NewCircuitBreaker(cfg)]
    /\ InitCallers
    /\ InitPool
    /\ InitAux
    /\ policiesEnabled = FALSE

NextCB ==
    \/ Tick
    \/ \E c \in Callers : ExecuteAdmit(c)
    \/ \E c \in Callers, o \in ReqOutcomes : ExecuteReturn(c, o)
    \/ StateQuery

SpecCB == InitCB /\ [][NextCB]_vars

(***************************************************************************)
(* GetBackendForStickySession called concurrently, one action per step of  *)
(* a call h.  The positions: "sticky_get" (before redisClient.Get),        *)
(* "sticky_touch" (before updateSession), "sticky_local" (before the read  *)
(* of s.stickySessions), "sticky_select" (before SelectBackend),           *)
(* "sticky_store" (before SetSession).                                     *)
(***************************************************************************)
ResolveRegions == {"default", "us-west", "asia"}

ResolveCall(h, sessionID, region) ==
    /\ req[h].pc = "idle"
    /\ started < MaxResolves
    /\ started' = started + 1
    /\ req' = [req EXCEPT ![h] = [IdleReq EXCEPT !.pc = "sticky_get",
                                     !.sid = sessionID, !.region = region]]
    /\ UNCHANGED <<now, cb, cbVars, auxVars, alive, active, current, stickySessions, redis,
                   policiesEnabled, resolved, replaced>>

\* GetSession: redisClient.Get
StickyGet(h) ==
    /\ req[h].pc = "sticky_get"
    /\ LET data == RedisGet(redis, req[h].sid)
       IN req' = [req EXCEPT ![h].sdata = data,
                             ![h].pc = IF data = "" THEN "sticky_local" ELSE "sticky_touch"]
    /\ UNCHANGED <<now, cb, cbVars, auxVars, alive, active, current, stickySessions, redis,
                   policiesEnabled, started, resolved, replaced>>

\* GetSession: updateSession writes the session read back with a new
\* LastAccess; then the scan of s.backends for the stored URL, which returns
\* the backend when it is alive
StickyTouch(h) ==
    /\ req[h].pc = "sticky_touch"
    /\ redis' = RedisSet(redis, req[h].sid, req[h].sdata)
    /\ IF req[h].sdata \in Range(pool.backends) /\ alive[req[h].sdata]
       THEN /\ req' = [req EXCEPT ![h] = IdleReq]
            /\ resolved' = Returned(resolved, req[h].sid, req[h].sdata, alive, cb)
       ELSE /\ req' = [req EXCEPT ![h].pc = "sticky_local"]
            /\ resolved' = resolved
    /\ UNCHANGED <<now, cb, cbVars, auxVars, alive, active, current, stickySessions,
                   policiesEnabled, started, replaced>>

\* the read of s.stickySessions under stickyMux.RLock (sdata keeps, for the
\* history variable replaced, the mapping this call found unusable)
StickyLocal(h) ==
    /\ req[h].pc = "sticky_local"
    /\ LET backend == LocalGet(stickySessions, req[h].sid)
       IN IF backend # NoBackend /\ alive[backend]
          THEN req' = [req EXCEPT ![h].peer = backend, ![h].pc = "sticky_store",
                                  ![h].sdata = ""]
          ELSE req' = [req EXCEPT ![h].pc = "sticky_select",
                                  ![h].sdata = IF backend # NoBackend THEN backend ELSE @]
    /\ UNCHANGED <<now, cb, cbVars, auxVars, alive, active, current, stickySessions, redis,
                   policiesEnabled, started, resolved, replaced>>

\* SelectBackend(region) and, for a backend, the write of s.stickySessions;
\* nil is returned at once
StickySelect(h, lat) ==
    /\ req[h].pc = "sticky_select"
    /\ LET a == SelectBackend(req[h].region, alive, current, cb, active, lat)
       IN /\ current' = a.current
          /\ cb' = a.cb
          /\ IF a.peer # NoBackend
             THEN /\ stickySessions' = LocalSet(stickySessions, req[h].sid, a.peer)
                  /\ req' = [req EXCEPT ![h].peer = a.peer, ![h].pc = "sticky_store",
                                          ![h].sdata = ""]
                  /\ replaced' = [s \in SessionIds |->
                                    \/ replaced[s]
                                    \/ s = req[h].sid /\ req[h].sdata # ""]
             ELSE /\ req' = [req EXCEPT ![h] = IdleReq]
                  /\ UNCHANGED <<stickySessions, replaced>>
    /\ UNCHANGED <<now, cbVars, auxVars, alive, active, redis, policiesEnabled, started,
                   resolved>>

\* SetSession, and the backend is returned
StickyStore(h) ==
    /\ req[h].pc = "sticky_store"
    /\ redis' = RedisSet(redis, req[h].sid, req[h].peer)
    /\ req' = [req EXCEPT ![h] = IdleReq]
    /\ resolved' = Returned(resolved, req[h].sid, req[h].peer, alive, cb)
    /\ UNCHANGED <<now, cb, cbVars, auxVars, alive, active, current, stickySessions,
                   policiesEnabled, started, replaced>>

InitSticky ==
    /\ now = 1
    /\ cb = [b \in Backends |-> NewCircuitBreaker(MainConfig)]
    /\ InitCallers
    /\ InitPool
    /\ InitAux
    /\ policiesEnabled = FALSE

NextSticky ==
    \/ \E h \in Handlers, s \in SessionIds, region \in ResolveRegions :
          ResolveCall(h, s, region)
    \/ \E h \in Handlers : StickyGet(h)
    \/ \E h \in Handlers : StickyTouch(h)
    \/ \E h \in Handlers : StickyLocal(h)
    \/ \E h \in Handlers : \E lat \in LatenciesFor(req[h].region, alive) :
          StickySelect(h, lat)
    \/ \E h \in Handlers : StickyStore(h)
    \/ \E b \in Backends, up \in BOOLEAN : HealthCheck(b, up)

SpecSticky == InitSticky /\ [][NextSticky]_vars

\* a breaker after n calls in a row that were admitted and failed at time t
RECURSIVE AfterFailures(_, _, _)
AfterFailures(c, n, t) ==
    IF n = 0 THEN c
    ELSE LET r == BeforeRequest(c, t)
         IN AfterFailures(AfterRequest(r.cb, r.generation, FALSE, t), n - 1, t)

\* The load balancer as main() sets it up with TRAFFIC_POLICIES_ENABLED=true,
\* once tripAt - 1 calls to Target in a row have failed: its breaker is one
\* failure short of tripping.  The requests of Spec are served within one
\* tick.
Init ==
    /\ now = 1
    /\ cb = [b \in Backends |->
                AfterFailures(NewCircuitBreaker(MainConfig),
                              IF b = Target THEN MainConfig.tripAt - 1 ELSE 0, now)]
    /\ InitCallers
    /\ InitPool
    /\ InitAux
    /\ policiesEnabled = TRUE

Next ==
    \/ \E h \in Handlers, r \in HTTPRequests :
          \E lat \in LatenciesFor(getClientRegion(r), alive) : Begin(h, r, lat)
    \/ \E h \in Handlers : Dispatch(h)
    \/ \E h \in Handlers, o \in ProxyOutcomes : ProxyReturn(h, o)
    \/ \E h \in Handlers : Finish(h)
    \/ \E h \in Handlers : Unavailable(h)
    \/ \E b \in Backends, up \in BOOLEAN : HealthCheck(b, up)

Spec == Init /\ [][Next]_vars

(***************************************************************************)
(* The policy engine on its own: policies are added in any order and       *)
(* switched on and off, SelectBackendWithPolicy is called with requests    *)
(* that reach it (empty session id), backends go down and come back.       *)
(***************************************************************************)
PolicyPool == {GeoPolicy, HeaderPolicy, CanaryPolicy, DenyPolicy}
\* no rule of these policies tells "US-WEST" from a region no rule names, and
\* a request outside the canary cohort is evaluated as one in it is by an
\* engine without the canary policy
PolicyRequests ==
    {r \in HTTPRequests : r.cookie = "" /\ r.clientRegion # "US-WEST" /\ r.hash = 29}

polFrame == <<now, cb, cbVars, alive, active, stickySessions, redis, policiesEnabled,
              req, started, resolved, replaced, rlVars, wVars, poolVars, selVars, extVars>>

AddPolicyCall(policy) ==
    /\ Len(engine) < MaxPolicies
    /\ engine' = AddPolicy(engine, policy)
    /\ UNCHANGED <<decision, current, polFrame>>

\* EnablePolicy: the first policy of that name is switched
EnablePolicy(name, enabled) ==
    /\ \E i \in 1..Len(engine) :
          /\ engine[i].Name = name
          /\ \A j \in 1..(i - 1) : engine[j].Name # name
          /\ engine[i].Enabled # enabled
          /\ engine' = [engine EXCEPT ![i].Enabled = enabled]
    /\ UNCHANGED <<decision, current, polFrame>>

\* SelectBackendWithPolicy(r), as lbHandler calls it
SelectCall(r) ==
    /\ LET e == EvaluateRequest(r, engine)
           p == SelectBackendWithEngine(r, policiesEnabled, engine, alive, current)
       IN /\ decision' = [called |-> TRUE, r |-> r, backend |-> e.backend,
                          err |-> e.err, peer |-> p.peer]
          /\ current' = p.current
    /\ UNCHANGED <<engine, polFrame>>

InitPolicySpec ==
    /\ now = 1
    /\ cb = [b \in Backends |-> NewCircuitBreaker(MainConfig)]
    /\ InitCallers
    /\ InitPool
    /\ policiesEnabled = TRUE
    /\ engine = <<>>
    /\ decision = NoDecision
    /\ InitRL
    /\ InitWeighted
    /\ InitSelect
    /\ InitExt
    /\ InitBuilt

NextPolicy ==
    \/ \E policy \in PolicyPool : AddPolicyCall(policy)
    \/ \E policy \in PolicyPool, enabled \in BOOLEAN : EnablePolicy(policy.Name, enabled)
    \/ \E r \in PolicyRequests : SelectCall(r)
    \/ \E b \in Backends, up \in BOOLEAN : HealthCheck(b, up)

SpecPolicy == InitPolicySpec /\ [][NextPolicy]_vars

(***************************************************************************)
(* The rate limiter on its own: concurrent requests to /lb pass through    *)
(* Middleware.  A call of Allow reads the time, then waits for the mutex.  *)
(***************************************************************************)
rlFrame == <<now, cb, cbVars, lbVars, polVars, wVars, poolVars, selVars, extVars>>

RLTick ==
    /\ clock < MaxClock
    /\ clock' = clock + 1
    /\ UNCHANGED <<buckets, mw, lastAnswer, requestCount, allowCalls, admits, rlFrame>>

\* Middleware computes the client key and calls Allow, which reads the time
MwEnter(h, key) ==
    /\ mw[h].pc = "idle"
    /\ allowCalls < 4 * RLCapacity + MaxExtraCalls
    /\ allowCalls' = allowCalls + 1
    /\ mw' = [mw EXCEPT ![h] = [pc |-> "allow", key |-> key, stamp |-> clock]]
    /\ UNCHANGED <<clock, buckets, lastAnswer, requestCount, admits, rlFrame>>

\* the critical section of Allow, and what Middleware does with its answer:
\* 429, or the handler behind it
MwAllow(h) ==
    /\ mw[h].pc = "allow"
    /\ LET key == mw[h].key
           a == Allow(buckets[key], mw[h].stamp)
           steady == buckets[key].present /\ buckets[key].warmup = 0
       IN /\ buckets' = [buckets EXCEPT ![key] = a.bucket]
          /\ requestCount' = Served(requestCount, a.allowed)
          /\ lastAnswer' = IF a.allowed THEN "next" ELSE "429"
          /\ admits' = IF steady /\ a.allowed
                       THEN [admits EXCEPT ![key] = Append(@, mw[h].stamp)]
                       ELSE admits
    /\ mw' = [mw EXCEPT ![h] = IdleMw]
    /\ UNCHANGED <<clock, allowCalls, rlFrame>>

InitRLSpec ==
    /\ now = 1
    /\ cb = [b \in Backends |-> NewCircuitBreaker(MainConfig)]
    /\ InitCallers
    /\ InitPool
    /\ policiesEnabled = TRUE
    /\ InitPolicy
    /\ InitRL
    /\ InitWeighted
    /\ InitSelect
    /\ InitExt
    /\ InitBuilt

NextRL ==
    \/ RLTick
    \/ \E h \in Handlers, key \in ClientKeys : MwEnter(h, key)
    \/ \E h \in Handlers : MwAllow(h)

SpecRL == InitRLSpec /\ [][NextRL]_vars

(***************************************************************************)
(* GetNextPeerWeighted called concurrently on the pool of main() with all  *)
(* backends alive: the atomic add on the cursor, then the scan.  The       *)
(* cursor starts anywhere, as earlier calls leave it.                      *)
(***************************************************************************)
wFrame == <<now, cb, cbVars, alive, active, stickySessions, redis, policiesEnabled,
            req, started, resolved, replaced, polVars, rlVars, poolVars, selVars, extVars>>

\* weighted snapshot, start := int(atomic.AddUint64(&s.current, 1)-1) % length
WeightedAdd(h) ==
    /\ wcall[h].pc = "idle"
    /\ Len(picks) < MaxPicks
    /\ Len(pool.weighted) > 0
    /\ wcall' = [wcall EXCEPT ![h] = [pc |-> "scan", start |-> current % Len(pool.weighted),
                                      ticket |-> Len(picks) + 1]]
    /\ current' = (current + 1) % Len(pool.weighted)
    /\ picks' = Append(picks, "pending")
    /\ UNCHANGED wFrame

\* the scan and the return
WeightedReturn(h) ==
    /\ wcall[h].pc = "scan"
    /\ picks' = [picks EXCEPT ![wcall[h].ticket] = WeightedScan(alive, wcall[h].start, 0)]
    /\ wcall' = [wcall EXCEPT ![h] = IdleCall]
    /\ UNCHANGED <<current, wFrame>>

InitWeightedSpec ==
    /\ now = 1
    /\ cb = [b \in Backends |-> NewCircuitBreaker(MainConfig)]
    /\ InitCallers
    /\ alive = [b \in Backends |-> TRUE]
    /\ active = [b \in Backends |-> 0]
    /\ current \in 0..(Len(pool.weighted) - 1)
    /\ stickySessions = [s \in SessionIds |-> NoBackend]
    /\ redis = [s \in SessionIds |-> ""]
    /\ req = [h \in Handlers |-> IdleReq]
    /\ started = 0
    /\ resolved = [s \in SessionIds |-> NoBackend]
    /\ replaced = [s \in SessionIds |-> FALSE]
    /\ policiesEnabled = FALSE
    /\ InitPolicy
    /\ InitRL
    /\ InitWeighted
    /\ InitSelect
    /\ InitExt
    /\ InitBuilt

NextWeighted ==
    \/ \E h \in Handlers : WeightedAdd(h)
    \/ \E h \in Handlers : WeightedReturn(h)

SpecWeighted == InitWeightedSpec /\ [][NextWeighted]_vars

(***************************************************************************)
(* AddBackend called on a new pool, any backend any number of times.       *)
(***************************************************************************)
addFrame == <<now, cb, cbVars, lbVars, polVars, rlVars, wVars, selVars, extVars>>

AddBackendCall(b) ==
    /\ Len(built.backends) < MaxAdds
    /\ built' = AddBackend(built, b)
    /\ UNCHANGED addFrame

InitPoolSpec ==
    /\ now = 1
    /\ cb = [b \in Backends |-> NewCircuitBreaker(MainConfig)]
    /\ InitCallers
    /\ InitPool
    /\ policiesEnabled = FALSE
    /\ InitPolicy
    /\ InitRL
    /\ InitWeighted
    /\ InitSelect
    /\ InitExt
    /\ built = EmptyPool

NextPool == \E b \in Backends : AddBackendCall(b)

SpecPool == InitPoolSpec /\ [][NextPool]_vars

(***************************************************************************)
(* SelectBackend and the /health endpoint on the pool of main(), while     *)
(* backends go down and come back, calls through a backend's breaker fail  *)
(* and time passes.  Every breaker starts one failure short of tripping.   *)
(***************************************************************************)
selFrame == <<cbVars, stickySessions, redis, policiesEnabled, req, started, replaced,
              active, polVars, rlVars, wVars, poolVars, extVars>>

\* Backend.ExecuteRequest with a req that returns an error
ExecuteFails(b) ==
    /\ LET r == BeforeRequest(cb[b], now)
       IN cb' = [cb EXCEPT ![b] = IF r.err = NoError
                                  THEN AfterRequest(r.cb, r.generation, FALSE, now)
                                  ELSE r.cb]
    /\ cb' # cb
    /\ UNCHANGED <<now, alive, current, resolved, selVars, selFrame>>

SelectBackendCall(region) ==
    /\ selection.n < MaxSelects
    /\ \E lat \in LatenciesFor(region, alive) :
          LET s == SelectBackend(region, alive, current, cb, active, lat)
          IN /\ selection' = [n |-> selection.n + 1, region |-> region, peer |-> s.peer]
             /\ current' = s.current
             /\ cb' = s.cb
    /\ UNCHANGED <<now, alive, resolved, health, selFrame>>

\* healthCheckHandler's status code
HealthStatus(al) == IF Cardinality({b \in Range(pool.backends) : al[b]}) > 0 THEN 200 ELSE 503

healthCheckHandler ==
    /\ health.n < MaxSelects
    /\ health' = [n |-> health.n + 1, status |-> HealthStatus(alive)]
    /\ UNCHANGED <<now, cb, alive, current, resolved, selection, selFrame>>

SelectTick ==
    /\ now < MaxNow
    /\ now' = now + 1
    /\ UNCHANGED <<cb, alive, current, resolved, selVars, selFrame>>

InitSelectSpec ==
    /\ now = 1
    /\ cb = [b \in Backends |->
                AfterFailures(NewCircuitBreaker(MainConfig), MainConfig.tripAt - 1, now)]
    /\ InitCallers
    /\ InitPool
    /\ policiesEnabled = FALSE
    /\ InitPolicy
    /\ InitRL
    /\ InitWeighted
    /\ InitBuilt
    /\ InitSelect
    /\ InitExt

NextSelect ==
    \/ \E b \in Backends, up \in BOOLEAN : HealthCheck(b, up)
    \/ \E b \in Backends : ExecuteFails(b)
    \/ \E region \in Regions \cup {""} : SelectBackendCall(region)
    \/ healthCheckHandler
    \/ SelectTick

SpecSelect == InitSelectSpec /\ [][NextSelect]_vars

(***************************************************************************)
(* GetBackendForStickySession with a session store whose operations can    *)
(* fail, while backends go down and come back.                             *)
(***************************************************************************)
StoreFailures == {{}, {"get"}, {"touch"}, {"set"}, {"get", "set"}}

StoreResolve(sessionID, region, fail) ==
    /\ \E lat \in LatenciesFor(region, alive) :
          LET r == StickyResolve(sessionID, region, alive, current, cb, active,
                                 stickySessions, redis, lat, TRUE, fail)
          IN /\ current' = r.current
             /\ cb' = r.cb
             /\ stickySessions' = r.stickySessions
             /\ redis' = r.redis
             /\ answer' = [n |-> 1 - answer.n, sid |-> sessionID, region |-> region,
                           fail |-> fail, peer |-> r.peer]
    /\ UNCHANGED <<now, cbVars, alive, active, policiesEnabled, req, started, resolved,
                   replaced, polVars, rlVars, wVars, poolVars, selVars, consulVars,
                   scaleVars, stateVars>>

InitStore ==
    /\ now = 1
    /\ cb = [b \in Backends |-> NewCircuitBreaker(MainConfig)]
    /\ InitCallers
    /\ InitPool
    /\ InitAux
    /\ policiesEnabled = FALSE

NextStore ==
    \/ \E s \in SessionIds, region \in ResolveRegions, fail \in StoreFailures :
          StoreResolve(s, region, fail)
    \/ \E b \in Backends, up \in BOOLEAN : HealthCheck(b, up)

SpecStore == InitStore /\ [][NextStore]_vars

(***************************************************************************)
(* UpdateBackendsFromConsul, called while the pool serves: the pool is     *)
(* cleared and refilled under s.mux, one service after the other.  Around  *)
(* it: health checks, failed calls and requests on the pool's backends,    *)
(* the local sticky cache, the scan of s.backends for the URL the session  *)
(* store holds, and the policy engine's redirect through backendMap.       *)
(***************************************************************************)
consulFrame == <<now, cb, cbVars, alive, active, stickySessions, redis, policiesEnabled,
                 req, started, resolved, replaced, polVars, rlVars, wVars, poolVars,
                 selVars, storeVars, scaleVars, stateVars>>

\* consulManager.GetAllServices(): the services Consul reports
ConsulUpdates ==
    {<<"http://localhost:8081", "http://localhost:8082">>, <<"http://localhost:8082">>}

\* s.mux.Lock(); s.backends = nil; s.weighted = nil; s.regions = make(...)
UpdateClear(services) ==
    /\ update.pc = "idle"
    /\ update.count < MaxRebuilds
    /\ update' = [pc |-> "adding", services |-> services, before |-> cpool.backends,
                  count |-> update.count + 1]
    /\ cpool' = EmptyPool
    /\ UNCHANGED <<heap, cache, got, events, current, consulFrame>>

\* one turn of the loop: a new Backend for the service, appended
UpdateAppend ==
    /\ update.pc = "adding"
    /\ update.services # <<>>
    /\ LET o == <<Head(update.services), update.count>>
       IN /\ heap' = [heap EXCEPT ![o] = FreshBackend]
          /\ cpool' = AddObject(cpool, o)
    /\ update' = [update EXCEPT !.services = Tail(@)]
    /\ UNCHANGED <<cache, got, events, current, consulFrame>>

\* the deferred s.mux.Unlock()
UpdateUnlock ==
    /\ update.pc = "adding"
    /\ update.services = <<>>
    /\ update' = [update EXCEPT !.pc = "idle"]
    /\ UNCHANGED <<heap, cpool, cache, got, events, current, consulFrame>>

\* HealthCheck on a backend of its snapshot of s.backends; a failed
\* ExecuteRequest; IncrementActive for a request
ObjectEvent(o, kind) ==
    /\ events < MaxHeapEvents
    /\ update.pc = "idle"
    /\ o \in Range(cpool.backends)
    /\ heap' = [heap EXCEPT ![o] =
          CASE kind = "down" -> [@ EXCEPT !.alive = FALSE]
            [] kind = "fail" ->
                 [@ EXCEPT !.cb = LET r == BeforeRequest(heap[o].cb, now)
                                  IN IF r.err = NoError
                                     THEN AfterRequest(r.cb, r.generation, FALSE, now)
                                     ELSE r.cb]
            [] OTHER -> [@ EXCEPT !.active = @ + 1]]
    /\ heap' # heap
    /\ events' = events + 1
    /\ UNCHANGED <<cpool, update, cache, got, current, consulFrame>>

\* GetNextPeerWeighted on the slices of objects
NextObject(weighted, start) ==
    LET n == Len(weighted)
        at(i) == weighted[((start + i) % n) + 1]
        live == {i \in 0..(n - 1) : heap[at(i)].alive}
    IN IF live = {} THEN NoBackend
       ELSE at(CHOOSE i \in live : \A j \in live : i <= j)

\* GetBackendForStickySession from the read of s.stickySessions on, for
\* region "default": the cached backend if it is alive, else
\* GetNextPeerWeighted (which waits for s.mux) and the write of the cache
CacheResolve(sessionID) ==
    LET backend == cache[sessionID]
    IN IF backend # NoBackend /\ heap[backend].alive
       THEN /\ got' = [n |-> 1 - got.n, kind |-> "cache", obj |-> backend]
            /\ UNCHANGED <<heap, cpool, update, cache, events, current, consulFrame>>
       ELSE /\ update.pc = "idle"
            /\ LET peer == IF cpool.weighted = <<>> THEN NoBackend
                            ELSE NextObject(cpool.weighted, current % Len(cpool.weighted))
               IN /\ got' = [n |-> 1 - got.n, kind |-> "cache", obj |-> peer]
                  /\ cache' = IF peer # NoBackend
                              THEN [cache EXCEPT ![sessionID] = peer] ELSE cache
                  /\ current' = IF cpool.weighted = <<>> THEN current
                                ELSE (current + 1) % Len(MainPool.weighted)
            /\ UNCHANGED <<heap, cpool, update, events, consulFrame>>

\* what a read of s.backends that takes no lock can find: the slice as it
\* is; during a rebuild also the slice replaced or an empty one (the read
\* races with the writes of the rebuild)
UnlockedRead ==
    IF update.pc = "idle" THEN {cpool.backends}
    ELSE {cpool.backends, update.before, <<>>}

\* GetBackendForStickySession: for _, backend := range s.backends, looking
\* for the URL the session store returned
StoreScan(url) ==
    /\ \E seen \in UnlockedRead :
          LET hits == {i \in 1..Len(seen) : seen[i][1] = url /\ heap[seen[i]].alive}
          IN /\ hits # {}
             /\ got' = [n |-> 1 - got.n, kind |-> "scan",
                        obj |-> seen[CHOOSE i \in hits : \A j \in hits : i <= j]]
    /\ UNCHANGED <<heap, cpool, update, cache, events, current, consulFrame>>

\* EvaluateRequest's redirect: backendMap[rule.Backend], the map
\* createBackendMap filled when the engine was enabled
PolicyRedirect(url) ==
    /\ got' = [n |-> 1 - got.n, kind |-> "policy", obj |-> <<url, 0>>]
    /\ UNCHANGED <<heap, cpool, update, cache, events, current, consulFrame>>

InitConsulSpec ==
    /\ now = 1
    /\ cb = [b \in Backends |-> NewCircuitBreaker(MainConfig)]
    /\ InitCallers
    /\ InitPool
    /\ InitAux
    /\ policiesEnabled = TRUE

NextConsul ==
    \/ \E services \in ConsulUpdates : UpdateClear(services)
    \/ UpdateAppend
    \/ UpdateUnlock
    \/ \E o \in Objects, kind \in {"down", "fail", "request"} : ObjectEvent(o, kind)
    \/ \E sessionID \in SessionIds : CacheResolve(sessionID)
    \/ \E url \in Backends : StoreScan(url)
    \/ \E url \in BackendMap : PolicyRedirect(url)

SpecConsul == InitConsulSpec /\ [][NextConsul]_vars

(***************************************************************************)
(* The autoscaler: ShouldScale called by concurrent callers (instances)    *)
(* that share the scaling state in the store, and AutoScaler.checkAndScale *)
(* on its ticker.  A tick of now is one minute.                            *)
(***************************************************************************)
scaleFrame == <<cb, cbVars, lbVars, polVars, rlVars, wVars, poolVars, selVars, storeVars,
                consulVars, stateVars>>

\* request counts below threshold/2, between, and above the threshold
RequestCounts == {5, 15, 25}

\* ShouldScale: GetAutoScalingState and time.Now()
ShouldScaleRead(h, count) ==
    /\ scaler[h].pc = "idle"
    /\ scale.calls < MaxScaleCalls
    /\ scaler' = [scaler EXCEPT ![h] = [pc |-> "decide", state |-> scale.state, t |-> now,
                                        count |-> count]]
    /\ scale' = [scale EXCEPT !.calls = @ + 1]
    /\ UNCHANGED <<now, scaleFrame>>

\* ShouldScale's decision on the state it read: the state it writes back
\* and what it returns
ShouldScale(state, count, threshold, t) ==
    LET scaleUp == /\ count > threshold
                   /\ state.LastScaleUp = 0 \/ t - state.LastScaleUp > ScaleCooldown
        s1 == IF scaleUp
              THEN [state EXCEPT !.LastScaleUp = t, !.CurrentReplicas = @ + 1]
              ELSE state
        scaleDown == /\ count < threshold \div 2
                     /\ count > 0
                     /\ s1.CurrentReplicas > 1
                     /\ s1.LastScaleDown = 0 \/ t - s1.LastScaleDown > ScaleCooldown
        s2 == IF scaleDown
              THEN [s1 EXCEPT !.LastScaleDown = t, !.CurrentReplicas = @ - 1]
              ELSE s1
    IN [state |-> s2, scaleUp |-> scaleUp, scaleDown |-> scaleDown]

\* ShouldScale: the decision, SetAutoScalingState if it scales, the return
ShouldScaleDecide(h) ==
    /\ scaler[h].pc = "decide"
    /\ LET r == ShouldScale(scaler[h].state, scaler[h].count, ScaleThreshold, scaler[h].t)
       IN scale' = [scale EXCEPT
                       !.state = IF r.scaleUp \/ r.scaleDown THEN r.state ELSE @,
                       !.ups = IF r.scaleUp THEN Append(@, scaler[h].t) ELSE @,
                       !.downs = IF r.scaleDown THEN @ + 1 ELSE @]
    /\ scaler' = [scaler EXCEPT ![h] = IdleScaler]
    /\ UNCHANGED <<now, scaleFrame>>

\* AutoScaler.checkAndScale: count := atomic.SwapInt64(RequestCount, 0);
\* above the threshold it signals a scale-up (addNewBackend)
checkAndScale(count) ==
    /\ scale.calls < MaxScaleCalls
    /\ scale' = [scale EXCEPT !.calls = @ + 1,
                              !.ups = IF count > ScaleThreshold THEN Append(@, now) ELSE @]
    /\ UNCHANGED <<now, scaler, scaleFrame>>

InitScaleSpec ==
    /\ now = 1
    /\ cb = [b \in Backends |-> NewCircuitBreaker(MainConfig)]
    /\ InitCallers
    /\ InitPool
    /\ InitAux
    /\ policiesEnabled = FALSE

NextScale ==
    \/ Tick
    \/ \E h \in Handlers, n \in RequestCounts : ShouldScaleRead(h, n)
    \/ \E h \in Handlers : ShouldScaleDecide(h)
    \/ \E n \in RequestCounts : checkAndScale(n)

SpecScale == InitScaleSpec /\ [][NextScale]_vars

(***************************************************************************)
(* The scoring loop of SelectBackend on a pool that AddBackend calls in    *)
(* any order have built, while backends go down and come back.             *)
(***************************************************************************)
\* getHealthyByRegion on the pool p
CandidatesOf(p, al, region) ==
    LET inRegion == IF region \in DOMAIN p.regions
                    THEN SelectSeq(p.regions[region], LAMBDA b : al[b])
                    ELSE <<>>
    IN IF region # "" /\ inRegion # <<>> THEN inRegion
       ELSE SelectSeq(p.backends, LAMBDA b : al[b])

\* SelectBackend(region) when it reaches its loop: region is neither "" nor
\* "default" and getHealthyByRegion returned candidates
SelectBuilt(region) ==
    /\ selection.n < MaxSelects
    /\ CandidatesOf(built, alive, region) # <<>>
    /\ \E lat \in Latencies :
          LET candidates == CandidatesOf(built, alive, region)
              cbs1 == [b \in Backends |->
                          IF b \in Range(candidates) THEN CurrentState(cb[b], now) ELSE cb[b]]
          IN /\ selection' = [n |-> selection.n + 1, region |-> region, lat |-> lat,
                              peer |-> BestOf(candidates, NoBackend, MaxScore, cbs1, active, lat)]
             /\ cb' = cbs1
    /\ UNCHANGED <<now, alive, current, resolved, health, selFrame>>

NextBest ==
    \/ \E b \in Backends : AddBackendCall(b)
    \/ \E b \in Backends, up \in BOOLEAN : HealthCheck(b, up)
    \/ \E region \in Regions : SelectBuilt(region)

SpecBest == InitPoolSpec /\ [][NextBest]_vars

(***************************************************************************)
(* CircuitBreaker.State() called by concurrent goroutines while Execute is *)
(* called on the same breaker.  State() holds cb.mutex.RLock(), which      *)
(* excludes Execute (Lock) but not another State(); the reads and writes   *)
(* of currentState, setState and toNewGeneration of two readers interleave.*)
(* A reader's cb.generation++ uses the value it reads then or the value it *)
(* read in currentState's switch (the unsynchronised access may see        *)
(* either).                                                                *)
(***************************************************************************)
brk == cb[Target]

stateFrame == <<now, cbVars, lbVars, polVars, rlVars, wVars, poolVars, selVars, storeVars,
                consulVars, scaleVars>>

\* no goroutine is inside State(): Lock() can be taken
NoReader == \A r \in Readers : reader[r].pc = "idle"

\* Execute's beforeRequest and afterRequest, which take cb.mutex.Lock()
LockedAdmit(c) == NoReader /\ ExecuteAdmit(c)
LockedReturn(c, outcome) == NoReader /\ ExecuteReturn(c, outcome)

\* State(): RLock, and the switch of currentState
StateRLock(r) ==
    /\ reader[r].pc = "idle"
    /\ reader' = [reader EXCEPT ![r] =
          [pc |-> CASE brk.state = StateClosed /\ brk.expiry # 0 /\ brk.expiry < now -> "renew"
                    [] brk.state = StateOpen /\ brk.expiry < now -> "set"
                    [] OTHER -> "return",
           generation |-> brk.generation,
           prev |-> ""]]
    /\ UNCHANGED <<cb, stateFrame>>

\* setState(StateHalfOpen, now): if cb.state == state return; prev := cb.state
StateSetCheck(r) ==
    /\ reader[r].pc = "set"
    /\ reader' = [reader EXCEPT ![r] =
          IF brk.state = StateHalfOpen
          THEN [@ EXCEPT !.pc = "return"]
          ELSE [@ EXCEPT !.pc = "write", !.prev = brk.state]]
    /\ UNCHANGED <<cb, stateFrame>>

\* the rest of setState: cb.state = state, toNewGeneration, onStateChange
StateWrite(r) ==
    /\ reader[r].pc = "write"
    /\ \E g \in {brk.generation, reader[r].generation} :
          cb' = [cb EXCEPT ![Target] =
                    OnStateChange(
                        ToNewGeneration([brk EXCEPT !.state = StateHalfOpen,
                                                    !.generation = g], now),
                        reader[r].prev, StateHalfOpen)]
    /\ reader' = [reader EXCEPT ![r].pc = "return"]
    /\ UNCHANGED stateFrame

\* toNewGeneration for a Closed breaker whose interval has passed
StateRenew(r) ==
    /\ reader[r].pc = "renew"
    /\ \E g \in {brk.generation, reader[r].generation} :
          cb' = [cb EXCEPT ![Target] = ToNewGeneration([brk EXCEPT !.generation = g], now)]
    /\ reader' = [reader EXCEPT ![r].pc = "return"]
    /\ UNCHANGED stateFrame

\* return state, and the deferred RUnlock
StateRUnlock(r) ==
    /\ reader[r].pc = "return"
    /\ reader' = [reader EXCEPT ![r] = IdleReader]
    /\ UNCHANGED <<cb, stateFrame>>

NextState ==
    \/ Tick
    \/ \E c \in Callers : LockedAdmit(c)
    \/ \E c \in Callers, outcome \in ReqOutcomes : LockedReturn(c, outcome)
    \/ \E r \in Readers : StateRLock(r)
    \/ \E r \in Readers : StateSetCheck(r)
    \/ \E r \in Readers : StateWrite(r)
    \/ \E r \in Readers : StateRenew(r)
    \/ \E r \in Readers : StateRUnlock(r)

SpecState == InitCB /\ [][NextState]_vars

(***************************************************************************)
(* Execute under load that does not stop: calls keep arriving, every call  *)
(* that was admitted returns, and after the time FaultsUntil every call    *)
(* that returns has succeeded.  The goroutines that call Execute are       *)
(* scheduled fairly and cb.mutex is handed to every waiter, so a call that *)
(* can be made or can return does so (weak fairness); time passes.  The    *)
(* clock is followed up to the time by which the longest timeout that      *)
(* began before FaultsUntil has run out.                                   *)
(***************************************************************************)
RecoveryHorizon == FaultsUntil + DefaultConfig.timeout + 1

LiveTick ==
    /\ now < RecoveryHorizon
    /\ now' = now + 1
    /\ UNCHANGED <<cb, cbVars, lbVars, auxVars>>

\* Execute: beforeRequest.  Of the calls that find the breaker Closed only
\* MaxCalls are followed (the counters of a Closed generation grow with
\* every call); the calls that find it Open or HalfOpen never stop.
Arrive(c) ==
    /\ callPc[c] = "idle"
    /\ IF CurrentState(cb[Target], now).state = StateClosed
       THEN calls < MaxCalls /\ calls' = calls + 1
       ELSE calls' = calls
    /\ LET r == BeforeRequest(cb[Target], now)
       IN /\ cb' = [cb EXCEPT ![Target] = r.cb]
          /\ IF r.err = NoError
             THEN /\ callPc' = [callPc EXCEPT ![c] = "running"]
                  /\ callGen' = [callGen EXCEPT ![c] = r.generation]
                  /\ lastRet' = lastRet
             ELSE /\ callPc' = callPc
                  /\ callGen' = callGen
                  /\ lastRet' = r.err
    /\ UNCHANGED <<now, streak, genStreak, lbVars, auxVars>>

\* Execute: req() returns (or panics) and afterRequest runs
Complete(c, outcome) ==
    /\ callPc[c] = "running"
    /\ outcome # "nil" => now <= FaultsUntil
    /\ cb' = [cb EXCEPT ![Target] =
                 AfterRequest(cb[Target], callGen[c], outcome = "nil", now)]
    /\ callPc' = [callPc EXCEPT ![c] = "idle"]
    /\ callGen' = [callGen EXCEPT ![c] = 0]
    /\ lastRet' = outcome
    /\ UNCHANGED <<now, calls, streak, genStreak, lbVars, auxVars>>

NextLive ==
    \/ LiveTick
    \/ \E c \in Callers : Arrive(c)
    \/ \E c \in Callers, outcome \in ReqOutcomes : Complete(c, outcome)

SpecLive ==
    /\ InitCB
    /\ [][NextLive]_vars
    /\ WF_vars(LiveTick)
    /\ \A c \in Callers : WF_vars(Arrive(c))
    /\ \A c \in Callers : WF_vars(Complete(c, "nil"))

(***************************************************************************)
(* Claims about the circuit breaker (checked under SpecCB).                *)
(***************************************************************************)

\* an Execute call was issued in this step, and was rejected / admitted
ExecuteIssued == calls' = calls + 1
ExecuteRejected == ExecuteIssued /\ callPc' = callPc
ExecuteAdmitted == ExecuteIssued /\ callPc' # callPc

\* the Closed interval of the current generation is over (the next
\* currentState starts a new generation)
IntervalElapsed == brk.state = StateClosed /\ brk.expiry # 0 /\ brk.expiry < now

\* C2 as stated: once threshold failed Execute calls have completed with no
\* successful one in between, the breaker is not Closed any more.
C2_AsStated == streak >= brk.tripAt => brk.state # StateClosed

\* C2, amended: when the threshold-th failure in a row among the calls of the
\* current Closed generation is committed before the interval is over, the
\* breaker goes Open in that step; and an Execute issued on an Open breaker
\* whose timeout has not run out is rejected with ErrTooManyRequests without
\* running the action.
C2_TripWithinGeneration ==
    [][/\ (/\ brk.state = StateClosed
           /\ ~IntervalElapsed
           /\ genStreak.gen = brk.generation
           /\ genStreak'.gen = brk.generation
           /\ genStreak.n = brk.tripAt - 1
           /\ genStreak'.n = brk.tripAt)
          => /\ brk'.state = StateOpen
             /\ brk'.generation = brk.generation + 1
       /\ (ExecuteIssued /\ brk.state = StateOpen /\ now <= brk.expiry)
          => /\ ExecuteRejected
             /\ lastRet' = ErrTooManyRequests
      ]_vars

\* C2 witness: a Closed breaker tripped by its threshold-th failure in a row,
\* and the next Execute was rejected
C2_Witness ==
    /\ brk.state = StateOpen
    /\ genStreak.n = brk.tripAt
    /\ genStreak.gen + 1 = brk.generation
    /\ lastRet = ErrTooManyRequests

\* C3: while the breaker is Open and less than timeout has passed since it
\* went Open, every Execute is rejected with ErrTooManyRequests, runs no
\* action and leaves the breaker as it is; the breaker enters Open with its
\* expiry timeout after the entry; the first Execute issued after the expiry
\* is admitted and leaves the breaker HalfOpen.
C3_OpenRejectsUntilTimeout ==
    [][/\ (brk.state # StateOpen /\ brk'.state = StateOpen)
          => brk'.expiry = now + brk.timeout
       /\ (ExecuteIssued /\ brk.state = StateOpen /\ now < brk.expiry)
          => /\ ExecuteRejected
             /\ lastRet' = ErrTooManyRequests
             /\ brk' = brk
       /\ (ExecuteIssued /\ brk.state = StateOpen /\ now > brk.expiry)
          => /\ ExecuteAdmitted
             /\ brk'.state = StateHalfOpen
             /\ brk'.counts.Requests = 1
       /\ (ExecuteIssued /\ brk.state = StateHalfOpen /\ brk.counts.Requests = 0)
          => ExecuteAdmitted /\ brk'.state = StateHalfOpen
      ]_vars

\* C3 witness: the last Execute to return was rejected by the Open breaker,
\* time went past the expiry, and a call is now running as the HalfOpen probe
C3_Witness ==
    /\ brk.state = StateHalfOpen
    /\ lastRet = ErrTooManyRequests
    /\ brk.counts.Requests = 1
    /\ \E c \in Callers : callPc[c] = "running" /\ callGen[c] = brk.generation

\* C4 as stated: the breaker goes from HalfOpen to Closed only on the commit
\* of a success that brings the successes committed in that HalfOpen
\* generation to maxRequests.
C4_AsStated ==
    [][(brk.state = StateHalfOpen /\ brk'.state = StateClosed)
          => brk.counts.TotalSuccesses + 1 >= brk.maxRequests]_vars

(***************************************************************************)
(* Claims about the dispatcher (checked under Spec).                       *)
(***************************************************************************)
\* C1 as stated: whenever a selection path hands an invocation its backend,
\* that backend is alive and its circuit breaker is not Open in the state the
\* selection is made in.
C1_AsStated ==
    [][\A h \in Handlers :
          (req'[h].peer # req[h].peer /\ req'[h].peer # NoBackend)
             => Selectable(req'[h].peer, alive, cb)]_vars

\* C5 as stated: when a dispatched request is answered 5xx and its call
\* commits in the breaker's current generation, the breaker records a
\* failure: ConsecutiveFailures grows by one, and the failure that brings it
\* to the threshold opens the breaker.
C5_AsStated ==
    [][\A h \in Handlers :
          LET c == CurrentState(cb[req[h].peer], now)
          IN (/\ req[h].pc = "proxy"
              /\ req'[h].pc = "done"
              /\ req'[h].outcome = "5xx"
              /\ c.state = StateClosed
              /\ req[h].generation = c.generation)
             => IF c.counts.ConsecutiveFailures + 1 >= c.tripAt
                THEN cb'[req[h].peer].state = StateOpen
                ELSE cb'[req[h].peer].counts.ConsecutiveFailures
                        = c.counts.ConsecutiveFailures + 1]_vars

\* the invocations between IncrementActive and the deferred DecrementActive
\* for backend b
InFlight(b) ==
    {h \in Handlers : req[h].pc \in {"proxy", "rejected", "done"} /\ req[h].peer = b}

\* C8: for every backend, activeConnections is never negative and equals the
\* number of lbHandler invocations between IncrementActive and the deferred
\* DecrementActive for it; so it is back at its value from before the
\* dispatch once the invocation has left, whether the call completed, was
\* rejected by the breaker or panicked.
C8_ActivePaired ==
    \A b \in Backends : active[b] >= 0 /\ active[b] = Cardinality(InFlight(b))

\* C8 witness: two invocations are dispatched to one backend, one rejected by
\* its breaker and one whose upstream call panicked, and neither has run its
\* deferred function yet
C8_Witness ==
    \E h1, h2 \in Handlers :
        /\ req[h1].pc = "rejected"
        /\ req[h2].pc = "done" /\ req[h2].outcome = "panic"
        /\ req[h1].peer = req[h2].peer
        /\ active[req[h1].peer] = 2

\* C9 as stated: the steps an invocation has consulted are sticky, policy
\* engine, adaptive, weighted in this order, each one only after the one
\* before it returned nil: when the if/else has left no backend all of
\* sticky, policy engine and adaptive have been consulted, and 503 is
\* answered only after all four.
C9_AsStated ==
    LET order == <<"sticky", "policy", "adaptive", "weighted">>
    IN \A h \in Handlers :
        /\ req[h].pc = "selected"
              => /\ req[h].consulted # <<>>
                 /\ req[h].consulted = SubSeq(order, 1, Len(req[h].consulted))
                 /\ req[h].peer = NoBackend => Len(req[h].consulted) = 3
        /\ req[h].pc = "unavailable" => req[h].consulted = order

\* C10 as stated: with the policies enabled, a request whose X-Client-Type
\* contains "premium" is dispatched to the backend of the header policy
\* when that backend is selectable.
C10_AsStated ==
    [][\A h \in Handlers :
          (/\ req[h].pc = "selected"
           /\ req[h].premium
           /\ policiesEnabled
           /\ Selectable(HeaderPolicy.Rules[2].Backend, alive, cb)
           /\ req'[h].pc \in {"proxy", "rejected"})
             => req'[h].peer = HeaderPolicy.Rules[2].Backend]_vars

(***************************************************************************)
(* Claims about sticky sessions (checked under SpecSticky).                *)
(***************************************************************************)
\* C6 as stated: once a resolve of session s has returned backend B, every
\* later resolve of s returns B for as long as B stays selectable.
C6_AsStated ==
    [][\A s \in SessionIds :
          (/\ resolved[s] # NoBackend
           /\ Selectable(resolved[s], alive, cb)
           /\ Selectable(resolved[s], alive', cb'))
             => resolved'[s] = resolved[s]]_vars

\* no resolve of session s is under way
Quiescent(s) == \A h \in Handlers : req[h].pc = "idle" \/ req[h].sid # s

\* C7 as stated: once a resolve has replaced the mapping of session s, the
\* local sticky cache and the session store map s to the same backend
\* whenever no resolve of s is under way.
C7_AsStated ==
    \A s \in SessionIds :
        (replaced[s] /\ Quiescent(s)) => stickySessions[s] = redis[s]

(***************************************************************************)
(* Claims about the policy engine (checked under SpecPolicy).              *)
(***************************************************************************)
\* the enabled policies of the engine that match request r
Matching(r) ==
    {i \in 1..Len(engine) : engine[i].Enabled /\ evaluatePolicy(r, engine[i]).match}

\* a SelectBackendWithPolicy call was made in this step
Selected == decision' # decision

\* C11 as stated: when enabled policies match the request of a call, what
\* EvaluateRequest returns is what the matching policy of the highest
\* Priority decides, whatever the order the policies were added in.
C11_AsStated ==
    [][(Selected /\ Matching(decision'.r) # {})
          => LET top == CHOOSE i \in Matching(decision'.r) :
                            \A j \in Matching(decision'.r) :
                                engine[j].Priority <= engine[i].Priority
                 e == EvaluateRequest(decision'.r, <<engine[top]>>)
             IN decision'.backend = e.backend /\ decision'.err = e.err]_vars

\* C12 as stated: a request that matches a rule of action deny (EvaluateRequest
\* returns the error) gets no backend from SelectBackendWithPolicy, so
\* that it is not proxied.
C12_AsStated ==
    [][(Selected /\ decision'.err) => decision'.peer = NoBackend]_vars

\* C13 as stated: when the deciding match is a redirect to a backend of the
\* pool, the engine returns that backend if it is selectable and no backend
\* otherwise.
C13_AsStated ==
    [][(Selected /\ Matching(decision'.r) # {})
          => LET first == CHOOSE i \in Matching(decision'.r) :
                              \A j \in Matching(decision'.r) : i <= j
                 m == evaluatePolicy(decision'.r, engine[first])
             IN (m.action = "redirect" /\ m.backend \in BackendMap)
                   => decision'.backend
                        = IF Selectable(m.backend, alive, cb) THEN m.backend
                          ELSE NoBackend]_vars

(***************************************************************************)
(* Claims about the rate limiter (checked under SpecRL).                   *)
(***************************************************************************)
\* the Middleware invocation h leaves the critical section of Allow in this step
AllowReturns(h) == mw[h].pc = "allow" /\ mw'[h].pc = "idle"

\* C14: every Allow call does what the reference token bucket does.  A key
\* not seen before starts with tokens = C and warmup = 3 * C; with warmup
\* left the call is admitted, warmup goes down by one and the tokens stay;
\* with none left the tokens become min(C, tokens + elapsed * R), for the
\* time elapsed between bucket.last and the time the call read (none when
\* that time is not later), and the call is admitted iff they are at least
\* one token, which it then spends; tokens stay within 0..C.
C14_ReferenceBucket ==
    [][\A h \in Handlers :
          AllowReturns(h) =>
             LET b == buckets[mw[h].key]
                 after == buckets'[mw[h].key]
                 t == mw[h].stamp
                 warmup == IF b.present THEN b.warmup ELSE 3 * RLCapacity
                 tokens == IF b.present THEN b.tokens ELSE RLCapacity * TokenUnit
                 elapsed == IF b.present /\ t > b.last THEN t - b.last ELSE 0
                 filled == IF tokens + elapsed * RefillRate > RLCapacity * TokenUnit
                           THEN RLCapacity * TokenUnit
                           ELSE tokens + elapsed * RefillRate
                 admitted == lastAnswer' = "next"
             IN /\ after.present
                /\ after.tokens >= 0 /\ after.tokens <= RLCapacity * TokenUnit
                /\ warmup > 0 => /\ admitted
                                 /\ after.warmup = warmup - 1
                                 /\ after.tokens = tokens
                /\ warmup = 0 => /\ admitted <=> filled >= TokenUnit
                                 /\ after.warmup = 0
                                 /\ after.tokens
                                      = IF admitted THEN filled - TokenUnit ELSE filled]_vars

\* C14 witness: a key has used up its warmup and then its C tokens, and the
\* request after them was answered 429
C14_Witness ==
    /\ lastAnswer = "429"
    /\ \E k \in ClientKeys :
          /\ buckets[k].present /\ buckets[k].warmup = 0
          /\ buckets[k].tokens < TokenUnit
          /\ Len(admits[k]) >= RLCapacity

C16_DeniedChangesNothing ==
    [][\A h \in Handlers :
          (AllowReturns(h) /\ lastAnswer' = "429")
             => /\ requestCount' = requestCount
                /\ UNCHANGED <<cb, alive, active, current, stickySessions, redis,
                               req, started>>
                /\ \A k \in ClientKeys \ {mw[h].key} : buckets'[k] = buckets[k]]_vars

\* C16 witness: a request was answered 429 while both keys have buckets
\* and requests have been served
C16_Witness ==
    /\ lastAnswer = "429"
    /\ requestCount > 0
    /\ \A k \in ClientKeys : buckets[k].present

(***************************************************************************)
(* Claims about weighted selection (checked under SpecWeighted).           *)
(***************************************************************************)
TotalWeight == Len(pool.weighted)

\* how often backend b was returned by the calls number i..j
Returns(b, i, j) == Cardinality({k \in i..j : picks[k] = b})

Occurrences(seq, b) == Cardinality({k \in 1..Len(seq) : seq[k] = b})

\* C18 as stated: however often AddBackend was called with a backend, the
\* pool slice holds it once, the weighted index holds it as often as its
\* weight, and the index of its region holds it once.
C18_AsStated ==
    \A b \in Range(built.backends) :
        /\ Occurrences(built.backends, b) = 1
        /\ Occurrences(built.weighted, b) = Weight(b)
        /\ Region(b) # "" => Occurrences(built.regions[Region(b)], b) = 1

(***************************************************************************)
(* Claims about SelectBackend and /health (checked under SpecSelect).      *)
(***************************************************************************)
SelectableIn(region) == {b \in Backends : Region(b) = region /\ Selectable(b, alive, cb)}
SelectableAny == {b \in Backends : Selectable(b, alive, cb)}

\* C19 as stated: a SelectBackend(region) that returns has returned a
\* selectable backend of the region when the region has one, a selectable
\* backend of the pool when the region has none and the pool has one, and
\* nil only when the pool has none.
C19_AsStated ==
    [][selection'.n # selection.n =>
          LET region == selection'.region
              peer == selection'.peer
          IN /\ SelectableIn(region) # {} => peer \in SelectableIn(region)
             /\ (SelectableIn(region) = {} /\ SelectableAny # {}) => peer \in SelectableAny
             /\ peer = NoBackend => SelectableAny = {}]_vars

\* C20 as stated: a request to /health is answered 200 when at least one
\* backend is alive with a breaker that is not Open, and 503 otherwise.
C20_AsStated ==
    [][health'.n # health.n =>
          (health'.status = 200 <=> SelectableAny # {})]_vars

(***************************************************************************)
(* Further claims about the circuit breaker (checked under SpecCB).        *)
(***************************************************************************)
\* the Execute of caller c returns from req() and commits in this step
Committing(c) == callPc[c] = "running" /\ callPc'[c] = "idle"

\* C23: when a call admitted in the current HalfOpen generation commits as a
\* failure (an error or a panic), the breaker is Open after the commit, in
\* the next generation, with its expiry timeout after the time of the
\* commit.
C23_HalfOpenFailureReopens ==
    [][\A c \in Callers :
          (/\ Committing(c)
           /\ lastRet' # "nil"
           /\ brk.state = StateHalfOpen
           /\ callGen[c] = brk.generation)
          => /\ brk'.state = StateOpen
             /\ brk'.generation = brk.generation + 1
             /\ brk'.expiry = now + brk.timeout
             /\ brk'.counts = ZeroCounts
      ]_vars

\* C23 witness: the breaker is Open again, in the generation after the one
\* whose first and only committed call failed (a Closed breaker trips on
\* the second failure in a row at the earliest)
C23_Witness ==
    /\ brk.state = StateOpen
    /\ brk.generation >= 3
    /\ genStreak.gen + 1 = brk.generation
    /\ genStreak.n = 1
    /\ lastRet \in {"err", "panic"}

\* C24: while the breaker is HalfOpen, the calls admitted in its generation
\* and not yet committed are at most maxRequests, and so is the count of
\* calls admitted in the generation; an Execute issued on a HalfOpen
\* breaker that has admitted maxRequests calls is rejected with
\* ErrTooManyRequests, runs no action and leaves the breaker as it is.
C24_HalfOpenLimit ==
    /\ [](brk.state = StateHalfOpen
            => /\ Cardinality({c \in Callers : callPc[c] = "running"
                                                /\ callGen[c] = brk.generation})
                     <= brk.maxRequests
               /\ brk.counts.Requests <= brk.maxRequests)
    /\ [][(/\ ExecuteIssued
           /\ brk.state = StateHalfOpen
           /\ brk.counts.Requests >= brk.maxRequests)
          => /\ ExecuteRejected
             /\ lastRet' = ErrTooManyRequests
             /\ brk' = brk
        ]_vars

\* C24 witness: a HalfOpen breaker with maxRequests calls admitted, every
\* caller but one inside req() in this generation, and the other caller's
\* Execute rejected
C24_Witness ==
    /\ brk.state = StateHalfOpen
    /\ brk.counts.Requests = brk.maxRequests
    /\ lastRet = ErrTooManyRequests
    /\ Cardinality({c \in Callers : callPc[c] = "running" /\ callGen[c] = brk.generation})
          = brk.maxRequests
    /\ \E c \in Callers : callPc[c] = "idle"

\* C25: when a call commits whose generation is not the one currentState
\* returns at the commit, the breaker is left as currentState leaves it
\* whatever the outcome: no counter of the current generation changes and
\* the outcome causes no transition.
C25_StaleCommitDiscarded ==
    [][\A c \in Callers :
          (Committing(c) /\ callGen[c] # CurrentState(brk, now).generation)
          => brk' = CurrentState(brk, now)
      ]_vars

\* C25 witness: the call that returned last failed, and the breaker is
\* Closed in a generation that began at this instant with no call counted
C25_Witness ==
    /\ lastRet = "err"
    /\ brk.state = StateClosed
    /\ brk.generation >= 1
    /\ brk.counts = ZeroCounts
    /\ brk.expiry = now + brk.interval
    /\ \A c \in Callers : callPc[c] = "idle"

\* C26: when the action of a call panics, the call commits (it does not stay
\* inside req()) and Execute ends with the panic; if the call's generation
\* is the current one, exactly one failure is counted in it, or the breaker
\* goes Open with the failure (from HalfOpen, or from Closed on
\* readyToTrip), as for a returned error.
C26_PanicIsOneFailure ==
    [][\A c \in Callers :
          (Committing(c) /\ lastRet' = "panic")
          => LET c1 == CurrentState(brk, now)
             IN /\ callGen[c] # c1.generation => brk' = c1
                /\ callGen[c] = c1.generation =>
                      IF c1.state = StateHalfOpen
                         \/ c1.counts.ConsecutiveFailures + 1 >= c1.tripAt
                      THEN /\ brk'.state = StateOpen
                           /\ brk'.generation = c1.generation + 1
                      ELSE brk' = [c1 EXCEPT !.counts.TotalFailures = @ + 1,
                                             !.counts.ConsecutiveFailures = @ + 1,
                                             !.counts.ConsecutiveSuccesses = 0]
      ]_vars

\* C26 witness: the call that returned last panicked, no call is inside
\* req(), and the breaker counts a failure in its generation
C26_Witness ==
    /\ lastRet = "panic"
    /\ \A c \in Callers : callPc[c] = "idle"
    /\ brk.counts.TotalFailures >= 1
    /\ brk.counts.ConsecutiveFailures >= 1

\* C27 as stated: a breaker built with NewCircuitBreaker's defaults is not
\* Closed any more once 5 failures in a row have been committed in its
\* generation.
C27_AsStated ==
    (/\ \A f \in DOMAIN DefaultConfig : brk[f] = DefaultConfig[f]
     /\ genStreak.gen = brk.generation
     /\ genStreak.n >= 5)
    => brk.state # StateClosed

(***************************************************************************)
(* Claims about the session store (checked under SpecStore).               *)
(***************************************************************************)
\* the store answered GetSession with a backend of the pool that is alive
StoreHit(sessionID) ==
    LET data == RedisGet(redis, sessionID)
    IN data # "" /\ data \in Range(pool.backends) /\ alive[data]

C21_AsStated ==
    [][(update.pc = "adding" /\ Len(cpool'.backends) = Len(cpool.backends) + 1)
       => LET o == cpool'.backends[Len(cpool'.backends)]
          IN \A old \in Range(update.before) : old[1] = o[1] => heap'[o] = heap[old]
      ]_vars

\* C29 as stated: a selection reads s.backends while no rebuild is under
\* way (the slice it reads is the one before or the one after the rebuild).
C29_AsStated ==
    [][(got'.n # got.n /\ got'.kind = "scan") => update.pc = "idle"]_vars

\* C30 as stated: the Backend a selection returns out of the local sticky
\* cache or the policy engine's backend map, while no rebuild is under way,
\* is one of the pool's.
C30_AsStated ==
    [][(/\ got'.n # got.n
        /\ got'.kind \in {"cache", "policy"}
        /\ got'.obj # NoBackend
        /\ update.pc = "idle")
       => got'.obj \in Range(cpool'.backends)
      ]_vars

(***************************************************************************)
(* Claims about the autoscaler (checked under SpecScale).                  *)
(***************************************************************************)
\* C28 as stated: any two scale-up decisions are at least CooldownPeriod
\* apart, and CurrentReplicas in the shared state has moved by one for
\* every decision.
C28_AsStated ==
    /\ \A i, j \in 1..Len(scale.ups) :
          i < j => scale.ups[j] - scale.ups[i] >= ScaleCooldown
    /\ scale.state.CurrentReplicas
          = DefaultScalingState.CurrentReplicas + Len(scale.ups) - scale.downs

\* C33 as stated: when a Closed breaker with interval > 0 admits or commits
\* a call after interval has passed since its generation began (for the
\* first generation: since the breaker was built, at time 1), the call
\* starts a new generation.
C33_AsStated ==
    [][(/\ brk.state = StateClosed
        /\ brk.interval > 0
        /\ (IF brk.generation = 0 THEN 1 ELSE brk.expiry - brk.interval) + brk.interval < now
        /\ ExecuteIssued \/ \E c \in Callers : Committing(c))
       => brk'.generation > brk.generation
      ]_vars

\* C38: the counters of a breaker are consistent in every state: outcomes
\* never outnumber the admitted requests, a run is never longer than its
\* total, and the success run and the failure run are never both positive.
C38_CountsConsistent ==
    \A b \in DOMAIN cb :
        LET k == cb[b].counts
        IN /\ k.TotalSuccesses + k.TotalFailures <= k.Requests
           /\ k.ConsecutiveSuccesses <= k.TotalSuccesses
           /\ k.ConsecutiveFailures <= k.TotalFailures
           /\ ~(k.ConsecutiveSuccesses > 0 /\ k.ConsecutiveFailures > 0)

\* a generation that has counted a success and then a failure
C38_Witness ==
    /\ brk.counts.TotalSuccesses > 0
    /\ brk.counts.ConsecutiveFailures > 0
    /\ brk.counts.ConsecutiveSuccesses = 0

\* C31 as stated: after any sequence of AddBackend calls the indexes agree
\* with the backend slice: a backend of the pool with weight w > 0 occurs w
\* times in the weighted index, every entry of the weighted index and of the
\* region index is a backend of the pool, and the region index lists each
\* backend of the pool once, under its own region and under no other.
C31_AsStated ==
    /\ \A b \in Range(built.backends) :
           /\ Weight(b) > 0 => Occurrences(built.weighted, b) = Weight(b)
           /\ \A r \in DOMAIN built.regions :
                  Occurrences(built.regions[r], b) = IF r = Region(b) THEN 1 ELSE 0
    /\ Range(built.weighted) \subseteq Range(built.backends)
    /\ \A r \in DOMAIN built.regions :
           Range(built.regions[r]) \subseteq Range(built.backends)

\* C36 as stated: the rebuild is not the health prober, so it leaves the
\* alive flag alone: the Backend it appends for a service whose Backend the
\* prober had marked not alive is not alive either.
C36_AsStated ==
    [][(update.pc = "adding" /\ Len(cpool'.backends) = Len(cpool.backends) + 1)
       => LET o == cpool'.backends[Len(cpool'.backends)]
          IN \A old \in Range(update.before) :
                 (old[1] = o[1] /\ ~heap[old].alive) => ~heap'[o].alive
      ]_vars

(***************************************************************************)
(* Claims about the scoring loop of SelectBackend (checked under SpecBest). *)
(***************************************************************************)
\* the place of a backend's id in the lexicographic order of the ids (the
\* configured URLs are listed in that order)
IdRank(b) == CHOOSE i \in 1..Len(BackendConfigs) : BackendConfigs[i].url = b

\* C32 as stated: the backend SelectBackend's loop returns has a minimal
\* score among the candidates, its breaker is not Open, and of the candidates
\* with the minimal score it is the one with the lowest id, whatever the
\* order of the AddBackend calls was.
C32_AsStated ==
    [][selection'.n # selection.n
       => LET candidates == Range(CandidatesOf(built, alive, selection'.region))
              sc(b) == Score(b, cb', active, selection'.lat)
              minimal == {b \in candidates :
                             \A c \in candidates : ~ScoreLess(sc(c), sc(b))}
              peer == selection'.peer
          IN IF \A b \in candidates : cb'[b].state = StateOpen
             THEN peer = NoBackend
             ELSE /\ peer \in minimal
                  /\ cb'[peer].state # StateOpen
                  /\ \A b \in minimal : IdRank(peer) <= IdRank(b)
      ]_vars

(***************************************************************************)
(* Claims about the request metrics of lbHandler (checked under Spec).     *)
(***************************************************************************)
\* C40 as stated: when an invocation of lbHandler that reached the metrics
\* returns, the status label it counted the request under is the status the
\* client was sent.
C40_AsStated ==
    [][\A h \in Handlers :
          (/\ req[h].pc \in {"done", "rejected"}
           /\ req[h].outcome # "panic"
           /\ req'[h].pc = "idle")
          => RecordedStatus(req[h]) = SentStatus(req[h])
      ]_vars

(***************************************************************************)
(* Claims about the breaker's transitions with concurrent State() calls    *)
(* (checked under SpecState).                                              *)
(***************************************************************************)
\* C34 as stated: a step changes the generation by one or not at all; a
\* change of state changes the generation; the generation changes only with
\* a change of state or when the interval of a Closed breaker has passed,
\* and the counters are zero then (but for the request admitted in the same
\* step); while the generation stays, no counter is reset.
C34_AsStated ==
    [][/\ brk'.generation \in {brk.generation, brk.generation + 1}
       /\ brk'.state # brk.state => brk'.generation = brk.generation + 1
       /\ brk'.generation # brk.generation =>
             /\ \/ brk'.state # brk.state
                \/ brk.state = StateClosed /\ brk.expiry # 0 /\ brk.expiry < now
             /\ brk'.counts \in {ZeroCounts, [ZeroCounts EXCEPT !.Requests = 1]}
       /\ brk'.generation = brk.generation =>
             /\ brk'.counts.Requests >= brk.counts.Requests
             /\ brk'.counts.TotalSuccesses >= brk.counts.TotalSuccesses
             /\ brk'.counts.TotalFailures >= brk.counts.TotalFailures
      ]_vars

\* C35 as stated: a step that changes the breaker's state calls
\* onStateChange once, with the state before and the state after; a step
\* that leaves the state calls it not at all.
C35_AsStated ==
    [][IF brk'.state # brk.state
       THEN brk'.notified = [n |-> brk.notified.n + 1, from |-> brk.state, to |-> brk'.state]
       ELSE brk'.notified = brk.notified
      ]_vars

\* C37 as stated: State() calls that overlap around the end of the timeout
\* make one transition from Open to HalfOpen: a State() call that writes
\* the new state finds the breaker Open and advances the generation by one.
C37_AsStated ==
    [][\A r \in Readers :
          (reader[r].pc = "write" /\ reader'[r].pc = "return")
          => brk.state = StateOpen /\ brk'.generation = brk.generation + 1
      ]_vars

(***************************************************************************)
(* Claims about recovery (checked under SpecLive).                         *)
(***************************************************************************)
\* C39: with calls that keep arriving, return and, from some time on,
\* succeed, a breaker that is Open becomes HalfOpen and a breaker that is
\* HalfOpen becomes Closed; and a HalfOpen breaker none of whose admitted
\* calls is outstanding admits the next call.
C39_Recovers ==
    /\ []((/\ brk.state = StateHalfOpen
           /\ \A c \in Callers : ~(callPc[c] = "running" /\ callGen[c] = brk.generation))
          => brk.counts.Requests < brk.maxRequests)
    /\ (brk.state = StateOpen) ~> (brk.state = StateHalfOpen)
    /\ (brk.state = StateHalfOpen) ~> (brk.state = StateClosed)

\* a breaker that was Open is Closed again after the faults have stopped
C39_Witness ==
    /\ now > FaultsUntil
    /\ brk.state = StateClosed
    /\ brk.notified.from = StateHalfOpen
    /\ brk.notified.to = StateClosed



































=============================================================================
